---- MODULE Spec2Model ----
(***************************************************************************)
(* Model of the services of planilla_opciones (backend/app/services):      *)
(* analytics.py, pricing_engine.py, greeks.py and market_data.py.          *)
(*                                                                         *)
(* One specification per operation:                                        *)
(*   SpecCvd      calculate_cvd_profile, one action per loop iteration     *)
(*   SpecCvdTick  the same on samples that carry no usable bid/ask         *)
(*   SpecDiv      calculate_cvd_divergence on a flow series                *)
(*   SpecFlip     _find_flip_point on a strike ladder                      *)
(*   SpecGex      calculate_gex_profile, one action per contract           *)
(*   SpecGexBatch the same on a batch with contracts that lack fields      *)
(*   SpecGexDup   the same on several contracts of one side and strike     *)
(*   SpecPain     _find_max_pain on a ladder of open interest              *)
(*   SpecPricing  calculate_iv_and_greeks and calculate_row_greeks, one    *)
(*                action per call into the pricing library                 *)
(*   SpecTicker   _parse_option_ticker on a ticker                         *)
(*   SpecDays     _get_days_to_expiry on a month code and a clock          *)
(*   SpecRoundTrip  calculate_theoretical_price, then calculate_row_greeks *)
(*   SpecChain    get_option_chain, one action per raw option              *)
(*   SpecCache    _fetch_stocks and _fetch_options, concurrent callers     *)
(*   SpecMoney    the moneyness of a strike and its part in local_gex      *)
(*                                                                         *)
(* Numbers.  Prices, strikes and volumes are integers (ticks, lots; cents  *)
(* in SpecMoney).                                                          *)
(* A dict key that may be absent is an optional value: <<>> when the key   *)
(* is absent (or None), <<v>> when it holds v.  Quotients are exact        *)
(* fractions <<numerator, denominator>> with denominator > 0.              *)
(***************************************************************************)
EXTENDS Integers, Sequences, FiniteSets, TLC

VARIABLES
    \* calculate_cvd_profile
    cvd_pc,          \* "idle" | "loop" | "done"
    n_samples,       \* len(historical_data)
    candle,          \* the sample of the current loop iteration, <<>> before the first
    flow_data,       \* List[FlowDataPoint] built so far
    cumulative_cvd,
    prev_close,
    prev_direction,
    cvd_result,      \* the returned list, <<>> until the call returns
    \* calculate_cvd_divergence
    div_pc,          \* "idle" | "call" | "done"
    div_flow,        \* the flow_data argument
    lookback,        \* the lookback argument
    verdict,         \* the returned dict, or the exception raised
    \* _find_flip_point
    flip_pc,         \* "idle" | "call" | "done"
    gex_strikes,     \* the gex_strikes argument: the ladder, ascending by strike
    flip_spot,       \* the spot_price argument
    zero_crossings,  \* the crossings recorded by the scan
    flip_point,      \* the returned value: <<>> for None, else <<fraction>>
    \* calculate_gex_profile
    gex_pc,          \* "idle" | "loop" | "done"
    n_options,       \* len(options_data)
    n_seen,          \* contracts of options_data iterated so far
    opt,             \* the contract of the current loop iteration
    spot_price,      \* the spot_price argument
    strikes_map,     \* the accumulator: strike -> per-side data
    profile,         \* the returned GexProfile, <<>> until the call returns
    \* _find_max_pain
    pain_pc,         \* "call" | "done"
    pain_strikes,    \* the gex_strikes argument, ascending by strike
    max_pain,        \* the returned value: <<>> for None, else <<strike>>
    \* PricingEngine.calculate_iv_and_greeks and calculate_row_greeks
    price_pc,        \* "call" | "solve_iv" | "delta" | "gamma" | "theta" | "vega" | "done" | "raised"
    kernel,          \* "engine" (pricing_engine.py) | "row" (greeks.py)
    arguments,       \* spot, strike, time to expiry, market price, option type
    result,          \* the result dict
    solver_calls,    \* calls of the implied volatility solver made so far
    \* MarketDataService._parse_option_ticker
    ticker_pc,       \* "call" | "done"
    ticker,          \* the ticker argument, a sequence of characters
    pattern_used,    \* index from 0 of the pattern that matched, 0 when none did
    groups,          \* match.groups(): <<symbol, type_code, strike_str, month_code>>
    parsed,          \* the returned dict, <<>> for None
    \* MarketDataService._get_days_to_expiry
    days_pc,         \* "call" | "done"
    code,            \* the month_code argument, a sequence of characters
    now,             \* datetime.now(): [year, month, day, second], second of the day
    expiry_date,     \* <<[year, month, day, second]>>, <<>> when no month was resolved
    days_to_expiry,  \* the returned number of days, <<>> until the call returns
    \* calculate_theoretical_price followed by calculate_row_greeks
    rt_pc,           \* "price" | "solve" | "done"
    contract,        \* <<[spot, strike, days, option_type, sigma]>>
    theoretical_price, \* what calculate_theoretical_price returned, <<>> before
    rt_result,       \* the result dict of calculate_row_greeks
    \* MarketDataService.get_option_chain
    chain_pc,        \* "call" | "loop" | "done" | "raised"
    underlying_price, \* the spot found in the stocks data, 0 when not found
    options,         \* the raw options fetched
    chain_seen,      \* number of raw options the loop has handled
    kernel_calls,    \* the arguments of every call that entered calculate_row_greeks
    parsed_options,  \* the records built so far
    \* MarketDataService._fetch_stocks and _fetch_options
    clock,           \* the time of the cache's timer, in ticks
    cache,           \* self._cache: key -> <<[data, expires]>>, <<>> when the key is not set
    fetch_pc,        \* per coroutine: "idle" | "awaiting" | "done" | "raised"
    fetch_key,       \* per coroutine: the cache key of the endpoint it fetches
    fetched,         \* per coroutine: the data returned, <<>> before
    upstream,        \* the upstream requests issued: [key, at, by]
    \* the two tests of "within 5% of spot" that calculate_gex_profile applies
    money_pc,        \* "call" | "done"
    money_strike,    \* the strike, in cents
    money_spot,      \* spot_price, in cents
    moneyness,       \* what _classify_moneyness returned, <<>> before
    in_local_gex     \* <<TRUE>> when the strike is summed into local_gex, <<>> before

cvdVars == <<cvd_pc, n_samples, candle, flow_data, cumulative_cvd, prev_close, prev_direction, cvd_result>>

divVars == <<div_pc, div_flow, lookback, verdict>>

flipVars == <<flip_pc, gex_strikes, flip_spot, zero_crossings, flip_point>>

gexVars == <<gex_pc, n_options, n_seen, opt, spot_price, strikes_map, profile>>

painVars == <<pain_pc, pain_strikes, max_pain>>

pricingVars == <<price_pc, kernel, arguments, result, solver_calls>>

tickerVars == <<ticker_pc, ticker, pattern_used, groups, parsed>>

daysVars == <<days_pc, code, now, expiry_date, days_to_expiry>>

roundTripVars == <<rt_pc, contract, theoretical_price, rt_result>>

chainVars == <<chain_pc, underlying_price, options, chain_seen, kernel_calls, parsed_options>>

cacheVars == <<clock, cache, fetch_pc, fetch_key, fetched, upstream>>

moneyVars == <<money_pc, money_strike, money_spot, moneyness, in_local_gex>>

vars == <<cvdVars, divVars, flipVars, gexVars, painVars, pricingVars, tickerVars, daysVars, roundTripVars, chainVars, cacheVars, moneyVars>>

-----------------------------------------------------------------------------
(* Bounds and input sets *)

\* longest input series of calculate_cvd_profile
MaxSamples == 3

\* number of coroutines that fetch concurrently
MaxFetches == 2

\* last tick of the cache's timer
MaxClock == 3

\* most raw options in the data given to get_option_chain
MaxChain == 2

\* longest flow series given to calculate_cvd_divergence
MaxFlowLen == 3

\* largest lookback given to calculate_cvd_divergence
MaxLookback == 4

\* longest strike ladder given to _find_flip_point
MaxStrikes == 4

\* largest magnitude of the total_gex of a strike of such a ladder
MaxGex == 3

\* longest options_data given to calculate_gex_profile
MaxOptions == 3

Absent == <<>>

Opt(S) == {Absent} \cup {<<v>> : v \in S}

\* dict.get(key, default)
Get(field, default) == IF field = Absent THEN default ELSE field[1]

Max(a, b) == IF a >= b THEN a ELSE b

Min(a, b) == IF a <= b THEN a ELSE b

Abs(x) == IF x < 0 THEN -x ELSE x

\* closes of the samples (price ticks)
Closes == {100, 103, 105}

\* volumes of the samples (lots); the key may be absent
Volumes == {0, 1000}

\* volumes of the tick-only series
TickVolumes == {1000, 1500, 2000}

\* bid / ask / last of a sample: absent keys, a non-positive bid, a crossed or
\* locked book, and books in which the closes 100, 103, 105 fall at locations
\* 0.1, 0.4, 0.6 (99-109), 0.5, 0.8, 1.0 (95-105) and below, inside, above
\* (101-104); a last price that differs from the close
Quotes ==
    { [bid |-> Absent, ask |-> Absent, last |-> Absent],
      [bid |-> <<99>>, ask |-> Absent, last |-> Absent],
      [bid |-> Absent, ask |-> <<109>>, last |-> Absent],
      [bid |-> <<0>>, ask |-> <<109>>, last |-> Absent],
      [bid |-> <<109>>, ask |-> <<109>>, last |-> Absent],
      [bid |-> <<99>>, ask |-> <<109>>, last |-> Absent],
      [bid |-> <<95>>, ask |-> <<105>>, last |-> Absent],
      [bid |-> <<101>>, ask |-> <<104>>, last |-> Absent],
      [bid |-> <<99>>, ask |-> <<109>>, last |-> <<104>>] }

Candles ==
    { [close |-> c, volume |-> v, bid |-> q.bid, ask |-> q.ask, last |-> q.last] :
        c \in Closes, v \in Opt(Volumes), q \in Quotes }

\* samples without a usable bid/ask: no quote at all, or a locked book
TickQuotes ==
    { [bid |-> Absent, ask |-> Absent, last |-> Absent],
      [bid |-> <<109>>, ask |-> <<109>>, last |-> Absent] }

TickCandles ==
    { [close |-> c, volume |-> <<v>>, bid |-> q.bid, ask |-> q.ask, last |-> q.last] :
        c \in Closes, v \in TickVolumes, q \in TickQuotes }

-----------------------------------------------------------------------------
(* calculate_cvd_profile *)

\* variant of UsesSpreadRule: the bid > 0 test is dropped
UsesSpreadRuleAnyBid(c) ==
    /\ c.bid # Absent
    /\ c.ask # Absent
    /\ c.ask[1] > c.bid[1]

\* analytics.py:417  the Lee-Ready branch is taken
UsesSpreadRule(c) ==
    /\ c.bid # Absent
    /\ c.ask # Absent
    /\ c.bid[1] > 0
    /\ c.ask[1] > c.bid[1]

\* analytics.py:418-420  (last - bid) / spread clamped to [0, 1], as a fraction
PriceLocation(c) ==
    LET last_price == Get(c.last, c.close)
        spread == c.ask[1] - c.bid[1]
        num == last_price - c.bid[1]
    IN  IF num > spread THEN <<spread, spread>>
        ELSE IF num < 0 THEN <<0, spread>>
        ELSE <<num, spread>>

\* analytics.py:422-427
SpreadDirection(c, prevDir) ==
    LET loc == PriceLocation(c)
    IN  IF 10 * loc[1] >= 6 * loc[2] THEN 1
        ELSE IF 10 * loc[1] <= 4 * loc[2] THEN -1
        ELSE prevDir

\* variant of TickDirection: an unchanged close counts as a buy
TickDirectionEqualBuys(c, prevClose, prevDir) ==
    IF c.close >= prevClose THEN 1 ELSE -1

\* analytics.py:430-435
TickDirection(c, prevClose, prevDir) ==
    IF c.close > prevClose THEN 1
    ELSE IF c.close < prevClose THEN -1
    ELSE prevDir

\* analytics.py:417-435  the direction of one sample
Direction(c, prevClose, prevDir) ==
    IF UsesSpreadRule(c) THEN SpreadDirection(c, prevDir)
    ELSE TickDirection(c, prevClose, prevDir)

\* variant of BuyVolume: the volume is booked as bought whatever the direction
BuyVolumeAlways(direction, volume) == volume

\* analytics.py:438-443
BuyVolume(direction, volume) == IF direction = 1 THEN volume ELSE 0

SellVolume(direction, volume) == IF direction = 1 THEN 0 ELSE volume

\* variant of NetFlow: the two sides are added
NetFlowSum(buy_volume, sell_volume) == buy_volume + sell_volume

\* analytics.py:446
NetFlow(buy_volume, sell_volume) == buy_volume - sell_volume

\* analytics.py:437-457  the FlowDataPoint of one sample (the date label is left out)
FlowPoint(c, direction, cvdBefore) ==
    LET volume == Get(c.volume, 0)
        buy_volume == BuyVolume(direction, volume)
        sell_volume == SellVolume(direction, volume)
        net_flow == NetFlow(buy_volume, sell_volume)
    IN  [ price |-> c.close, volume |-> volume, buy_volume |-> buy_volume,
          sell_volume |-> sell_volume, net_flow |-> net_flow,
          cvd |-> cvdBefore + net_flow ]

\* variant of SeedDirection: the series starts assuming a sell
SeedDirectionSell == 0 - 1

\* analytics.py:406  prev_direction = 1, "start assuming buy"
SeedDirection == 1

CvdIdle ==
    /\ cvd_pc = "idle"
    /\ n_samples = 0
    /\ candle = Absent
    /\ flow_data = <<>>
    /\ cumulative_cvd = 0
    /\ prev_close = 0
    /\ prev_direction = SeedDirection
    /\ cvd_result = <<>>

\* analytics.py:400-406  the call: the length check and the seeds; the caller's
\* list has n samples and its first sample closes at c0
CvdCall(n, c0) ==
    /\ cvd_pc = "idle"
    /\ n_samples' = n
    /\ IF n < 2
       THEN /\ cvd_pc' = "done"
            /\ prev_close' = prev_close
       ELSE /\ cvd_pc' = "loop"
            /\ prev_close' = c0
    /\ cumulative_cvd' = 0
    /\ prev_direction' = SeedDirection
    /\ flow_data' = <<>>
    /\ cvd_result' = <<>>
    /\ candle' = Absent
    /\ UNCHANGED <<divVars, flipVars, gexVars, painVars, pricingVars, tickerVars, daysVars, roundTripVars, chainVars, cacheVars, moneyVars>>

\* analytics.py:408-464  one iteration of the loop, on sample c (the first
\* sample is the one whose close seeded prev_close); after the last sample the
\* loop ends and the list is returned
CvdIterate(c) ==
    /\ cvd_pc = "loop"
    /\ Len(flow_data) < n_samples
    /\ Len(flow_data) = 0 => c.close = prev_close
    /\ LET direction == Direction(c, prev_close, prev_direction)
           point == FlowPoint(c, direction, cumulative_cvd)
           last_one == Len(flow_data) + 1 = n_samples
       IN  /\ candle' = <<c>>
           /\ flow_data' = Append(flow_data, point)
           /\ cumulative_cvd' = point.cvd
           /\ prev_close' = c.close
           /\ prev_direction' = direction
           /\ cvd_pc' = IF last_one THEN "done" ELSE "loop"
           /\ cvd_result' = IF last_one THEN Append(flow_data, point) ELSE <<>>
    /\ UNCHANGED n_samples
    /\ UNCHANGED <<divVars, flipVars, gexVars, painVars, pricingVars, tickerVars, daysVars, roundTripVars, chainVars, cacheVars, moneyVars>>

DivIdle ==
    /\ div_pc = "idle"
    /\ div_flow = <<>>
    /\ lookback = 0
    /\ verdict = Absent

FlipIdle ==
    /\ flip_pc = "idle"
    /\ gex_strikes = <<>>
    /\ flip_spot = 0
    /\ zero_crossings = <<>>
    /\ flip_point = Absent

GexIdle ==
    /\ gex_pc = "idle"
    /\ n_options = 0
    /\ n_seen = 0
    /\ opt = Absent
    /\ spot_price = 0
    /\ strikes_map = <<>>
    /\ profile = Absent

PainIdle ==
    /\ pain_pc = "idle"
    /\ pain_strikes = <<>>
    /\ max_pain = Absent

\* pricing_engine.py:51-58, greeks.py:52-59
EmptyResult ==
    [iv |-> Absent, delta |-> Absent, gamma |-> Absent, theta |-> Absent,
     vega |-> Absent, error |-> Absent]

PricingIdle ==
    /\ price_pc = "idle"
    /\ kernel = "none"
    /\ arguments = Absent
    /\ result = EmptyResult
    /\ solver_calls = 0

TickerIdle ==
    /\ ticker_pc = "idle"
    /\ ticker = <<>>
    /\ pattern_used = 0
    /\ groups = Absent
    /\ parsed = Absent

DaysIdle ==
    /\ days_pc = "idle"
    /\ code = <<>>
    /\ now = [year |-> 0, month |-> 0, day |-> 0, second |-> 0]
    /\ expiry_date = Absent
    /\ days_to_expiry = Absent

RoundTripIdle ==
    /\ rt_pc = "idle"
    /\ contract = Absent
    /\ theoretical_price = Absent
    /\ rt_result = EmptyResult

ChainIdle ==
    /\ chain_pc = "idle"
    /\ underlying_price = 0
    /\ options = <<>>
    /\ chain_seen = 0
    /\ kernel_calls = <<>>
    /\ parsed_options = <<>>

\* market_data.py:37-38  the cache keys of the two endpoints
CacheKeys == {"stocks_data", "options_data"}

CacheIdle ==
    /\ clock = 0
    /\ cache = [k \in CacheKeys |-> Absent]
    /\ fetch_pc = <<>>
    /\ fetch_key = <<>>
    /\ fetched = <<>>
    /\ upstream = <<>>

MoneyIdle ==
    /\ money_pc = "idle"
    /\ money_strike = 0
    /\ money_spot = 0
    /\ moneyness = Absent
    /\ in_local_gex = Absent

InitCvd == CvdIdle /\ DivIdle /\ FlipIdle /\ GexIdle /\ PainIdle /\ PricingIdle /\ TickerIdle /\ DaysIdle /\ RoundTripIdle /\ ChainIdle /\ CacheIdle /\ MoneyIdle

NextCvd(samples) ==
    \/ \E n \in 0..MaxSamples, c0 \in {c.close : c \in samples} : CvdCall(n, c0)
    \/ \E c \in samples : CvdIterate(c)

\* calculate_cvd_profile on series of samples with and without quotes
SpecCvd == InitCvd /\ [][NextCvd(Candles)]_vars

\* calculate_cvd_profile on series in which no sample has a usable bid/ask
SpecCvdTick == InitCvd /\ [][NextCvd(TickCandles)]_vars

-----------------------------------------------------------------------------
(* Properties of calculate_cvd_profile *)

Last(s) == s[Len(s)]

\* an iteration of the loop has just processed candle'
CvdIterated == cvd_pc = "loop" /\ Len(flow_data') = Len(flow_data) + 1

\* the whole volume of the point lies on the side of the direction
OnSide(point, direction) ==
    /\ point.buy_volume = (IF direction = 1 THEN point.volume ELSE 0)
    /\ point.sell_volume = (IF direction = 1 THEN 0 ELSE point.volume)

\* C1: the flow points satisfy cvd[0] = net_flow[0] and cvd[i] = cvd[i-1] +
\* net_flow[i] with net_flow[i] = buy_volume[i] - sell_volume[i]; the point of
\* the current sample carries that sample's close and volume, and a series of
\* n >= 2 samples returns exactly n points.
C1_CvdRunningSum ==
    /\ \A i \in 1..Len(flow_data) :
        /\ flow_data[i].net_flow = flow_data[i].buy_volume - flow_data[i].sell_volume
        /\ flow_data[i].cvd =
             (IF i = 1 THEN 0 ELSE flow_data[i - 1].cvd) + flow_data[i].net_flow
    /\ candle # Absent =>
        /\ Last(flow_data).price = candle[1].close
        /\ Last(flow_data).volume = Get(candle[1].volume, 0)
    /\ cumulative_cvd = (IF flow_data = <<>> THEN 0 ELSE Last(flow_data).cvd)
    /\ cvd_pc = "done" =>
        /\ cvd_result = flow_data
        /\ Len(cvd_result) = (IF n_samples >= 2 THEN n_samples ELSE 0)

\* a series of three samples was returned, with a sold point in it
C1_Witness ==
    /\ cvd_pc = "done"
    /\ Len(cvd_result) = 3
    /\ cvd_result[2].net_flow < 0
    /\ cvd_result[3].net_flow > 0
    /\ cvd_result[3].cvd = cvd_result[1].cvd

\* C2 as claimed: at every flow point buy_volume + sell_volume = volume and
\* exactly one of buy_volume and sell_volume is nonzero, also for a volume of
\* 0 or an absent volume.
C2_ExactlyOneSideNonzero ==
    \A i \in 1..Len(flow_data) :
        /\ flow_data[i].buy_volume + flow_data[i].sell_volume = flow_data[i].volume
        /\ (flow_data[i].buy_volume # 0) # (flow_data[i].sell_volume # 0)

\* C2 as amended: at every flow point buy_volume + sell_volume = volume and at
\* most one side is nonzero: exactly one when volume > 0, neither when the
\* volume is 0 or absent.
C2_AtMostOneSideNonzero ==
    \A i \in 1..Len(flow_data) :
        /\ flow_data[i].buy_volume + flow_data[i].sell_volume = flow_data[i].volume
        /\ ~(flow_data[i].buy_volume # 0 /\ flow_data[i].sell_volume # 0)
        /\ flow_data[i].volume > 0 =>
            (flow_data[i].buy_volume # 0) # (flow_data[i].sell_volume # 0)
        /\ flow_data[i].volume = 0 =>
            flow_data[i].buy_volume = 0 /\ flow_data[i].sell_volume = 0

\* a sample without a volume key, after a sold and a bought sample
C2_Witness ==
    /\ Len(flow_data) = 3
    /\ flow_data[1].sell_volume > 0
    /\ flow_data[2].buy_volume > 0
    /\ candle[1].volume = Absent
    /\ flow_data[3].volume = 0

\* the claims' "usable" bid/ask: both present, ask > bid > 0
BidAskUsable(c) ==
    /\ c.bid # Absent
    /\ c.ask # Absent
    /\ c.ask[1] > c.bid[1]
    /\ c.bid[1] > 0

\* location = clamp((last - bid) / (ask - bid), 0, 1) in tenths of the spread:
\* the pair <<10 * location * spread, spread>>
LocationTenths(c) ==
    LET x == Get(c.last, c.close) - c.bid[1]
        s == c.ask[1] - c.bid[1]
    IN  <<10 * (IF x < 0 THEN 0 ELSE IF x > s THEN s ELSE x), s>>

\* C3: a sample is classified by the spread-location rule if and only if its
\* bid and ask are usable; then the direction is buy when location >= 0.6,
\* sell when location <= 0.4 and the previous sample's direction otherwise,
\* whatever the close is against the previous close; the sample's volume is
\* booked on that side.
C3_SpreadLocationRule ==
    [][ CvdIterated =>
          LET c == candle'[1]
              loc == LocationTenths(c)
          IN  /\ UsesSpreadRule(c) <=> BidAskUsable(c)
              /\ BidAskUsable(c) =>
                  /\ loc[1] >= 6 * loc[2] => prev_direction' = 1
                  /\ loc[1] <= 4 * loc[2] => prev_direction' = -1
                  /\ (loc[1] > 4 * loc[2] /\ loc[1] < 6 * loc[2]) =>
                        prev_direction' = prev_direction
                  /\ OnSide(Last(flow_data'), prev_direction')
      ]_vars

\* a sample with a usable quote and a location of 0.5 continues a sell although
\* its close is above the previous close
C3_Witness ==
    /\ Len(flow_data) >= 2
    /\ BidAskUsable(candle[1])
    /\ LocationTenths(candle[1])[1] = 5 * LocationTenths(candle[1])[2]
    /\ candle[1].close > flow_data[Len(flow_data) - 1].price
    /\ Last(flow_data).sell_volume > 0
    /\ prev_direction = -1

\* C4: a sample whose bid/ask is unusable is classified by the tick rule: buy
\* if its close is above the previous sample's close, sell if below, and the
\* previous sample's direction if equal; the previous close and direction are
\* those of the immediately preceding sample (the side its volume was booked
\* on), whichever rule classified it.
C4_TickRule ==
    [][ CvdIterated =>
          LET c == candle'[1]
          IN  /\ flow_data # <<>> =>
                  /\ prev_close = Last(flow_data).price
                  /\ OnSide(Last(flow_data), prev_direction)
              /\ flow_data = <<>> => prev_close = c.close
              /\ ~BidAskUsable(c) =>
                  /\ c.close > prev_close => prev_direction' = 1
                  /\ c.close < prev_close => prev_direction' = -1
                  /\ c.close = prev_close => prev_direction' = prev_direction
                  /\ OnSide(Last(flow_data'), prev_direction')
      ]_vars

\* a sample without a usable quote repeats the previous close and continues
\* the previous sample's sell
C4_Witness ==
    /\ Len(flow_data) >= 2
    /\ ~BidAskUsable(candle[1])
    /\ candle[1].close = flow_data[Len(flow_data) - 1].price
    /\ flow_data[Len(flow_data) - 1].sell_volume > 0
    /\ Last(flow_data).sell_volume > 0

\* the directions the tick rule gives a series of prices, the first one a buy
TickDirections(points) ==
    LET dir[i \in 1..Len(points)] ==
            IF i = 1 THEN 1
            ELSE IF points[i].price > points[i - 1].price THEN 1
            ELSE IF points[i].price < points[i - 1].price THEN -1
            ELSE dir[i - 1]
    IN  dir

\* C5: in a series without usable bid/ask the first sample is a buy, so cvd[0]
\* is the first sample's volume, and every later cvd adds or subtracts the
\* sample's full volume by the tick rule; closes [100, 105, 103] with volumes
\* [1000, 2000, 1500] give cvd [1000, 3000, 1500].
C5_TickOnlySeries ==
    LET dir == TickDirections(flow_data)
    IN  /\ (candle # Absent => ~BidAskUsable(candle[1]))
        /\ \A i \in 1..Len(flow_data) :
            /\ OnSide(flow_data[i], dir[i])
            /\ flow_data[i].cvd =
                 (IF i = 1 THEN 0 ELSE flow_data[i - 1].cvd) + dir[i] * flow_data[i].volume
        /\ flow_data # <<>> => flow_data[1].cvd = flow_data[1].volume
        /\ ( /\ Len(flow_data) = 3
             /\ [i \in 1..3 |-> flow_data[i].price] = <<100, 105, 103>>
             /\ [i \in 1..3 |-> flow_data[i].volume] = <<1000, 2000, 1500>> )
           => [i \in 1..3 |-> flow_data[i].cvd] = <<1000, 3000, 1500>>

\* the series of the example was returned
C5_Witness ==
    /\ cvd_pc = "done"
    /\ Len(cvd_result) = 3
    /\ [i \in 1..3 |-> cvd_result[i].price] = <<100, 105, 103>>
    /\ [i \in 1..3 |-> cvd_result[i].volume] = <<1000, 2000, 1500>>
    /\ cvd_result[3].sell_volume = 1500

-----------------------------------------------------------------------------
(* calculate_cvd_divergence *)

\* prices and cvd values of the points of a flow series; of a FlowDataPoint the
\* function reads price and cvd only
DivPrices == {0, 100, 105}

DivCvds == {-1000, 0, 1000}

DivPoints == [price : DivPrices, cvd : DivCvds]

\* analytics.py:487  flow_data[-lookback:], the slice of Python: -0 is 0, so a
\* lookback of 0 takes the whole list
Window(flow, n) ==
    IF n = 0 THEN flow
    ELSE SubSeq(flow, Max(Len(flow) - n, 0) + 1, Len(flow))

\* variant of PriceTrend: an unchanged price counts as up
PriceTrendFlatUp(price_start, price_end) ==
    IF price_end >= price_start THEN "up" ELSE "down"

\* analytics.py:492
PriceTrend(price_start, price_end) ==
    IF price_end > price_start THEN "up" ELSE "down"

\* analytics.py:497
CvdTrend(cvd_start, cvd_end) ==
    IF cvd_end > cvd_start THEN "up" ELSE "down"

\* analytics.py:500-504
Divergence(price_trend, cvd_trend) ==
    IF price_trend = "down" /\ cvd_trend = "up" THEN "bullish"
    ELSE IF price_trend = "up" /\ cvd_trend = "down" THEN "bearish"
    ELSE "None"

\* analytics.py:484-517  the dict returned, or the exception raised by
\* recent[0] on an empty window.  price_change_pct is left out: its division
\* is guarded by "if price_start" and it decides nothing else.
CalculateCvdDivergence(flow, n) ==
    IF Len(flow) < n
    THEN [kind |-> "insufficient", divergence |-> "None", strength |-> 0]
    ELSE LET recent == Window(flow, n)
         IN  IF recent = <<>>
             THEN [kind |-> "raised", error |-> "IndexError"]
             ELSE LET price_trend == PriceTrend(recent[1].price, recent[Len(recent)].price)
                      cvd_trend == CvdTrend(recent[1].cvd, recent[Len(recent)].cvd)
                  IN  [ kind |-> "verdict",
                        divergence |-> Divergence(price_trend, cvd_trend),
                        price_trend |-> price_trend,
                        cvd_trend |-> cvd_trend,
                        cvd_change |-> recent[Len(recent)].cvd - recent[1].cvd,
                        lookback_periods |-> n ]

\* the arguments of a call
DivArguments ==
    /\ div_pc = "call"
    /\ \E k \in 0..MaxFlowLen : div_flow \in [1..k -> DivPoints]
    /\ lookback \in 0..MaxLookback
    /\ verdict = Absent

\* analytics.py:466-517  the call
DivCall ==
    /\ div_pc = "call"
    /\ verdict' = <<CalculateCvdDivergence(div_flow, lookback)>>
    /\ div_pc' = "done"
    /\ UNCHANGED <<div_flow, lookback>>
    /\ UNCHANGED <<cvdVars, flipVars, gexVars, painVars, pricingVars, tickerVars, daysVars, roundTripVars, chainVars, cacheVars, moneyVars>>

InitDiv == CvdIdle /\ DivArguments /\ FlipIdle /\ GexIdle /\ PainIdle /\ PricingIdle /\ TickerIdle /\ DaysIdle /\ RoundTripIdle /\ ChainIdle /\ CacheIdle /\ MoneyIdle

NextDiv == DivCall

\* calculate_cvd_divergence on every flow series and lookback of the bounds
SpecDiv == InitDiv /\ [][NextDiv]_vars

-----------------------------------------------------------------------------
(* Properties of calculate_cvd_divergence *)

\* the call returned a verdict over a window of lookback >= 1 points
DivJudged ==
    /\ div_pc = "done"
    /\ lookback >= 1
    /\ Len(div_flow) >= lookback

WindowFirst == div_flow[Len(div_flow) - lookback + 1]

WindowLast == div_flow[Len(div_flow)]

C7_NeverRaises ==
    div_pc = "done" =>
        /\ verdict[1].kind # "raised"
        /\ Len(div_flow) < lookback => verdict[1].kind = "insufficient"

-----------------------------------------------------------------------------
(* _find_flip_point *)

(***************************************************************************)
(* Exposures are integers counting quanta of 0.00005 (GEX is scaled to     *)
(* millions, so a quantum is 50 currency units): the 0.0001 of line 330 is *)
(* 2 quanta.  A flip point is an exact fraction <<num, den>>, den > 0.     *)
(***************************************************************************)

\* analytics.py:330  the 0.0001 below which no interpolation is made, in quanta
FlipEpsilon == 2

\* the strikes of a ladder, ascending and unevenly spaced: 100, 200, 350, 450, ...
LadderStrike(i) == 100 * i + 50 * (i \div 3)

\* the ladder of n strikes whose total_gex are g[1], ..., g[n]
Ladder(n, g) == [i \in 1..n |-> [strike |-> LadderStrike(i), total_gex |-> g[i]]]

\* spot prices: on a strike, between strikes, beyond the ladder
FlipSpots == {100, 260, 350, 600}

\* analytics.py:320-325  cumsum after the first i strikes
RunningSum(ladder, i) ==
    LET cum[k \in 0..i] == IF k = 0 THEN 0 ELSE cum[k - 1] + ladder[k].total_gex
    IN  cum[i]

\* variant of FlipStrike: the ratio is taken from the far side of the crossing
FlipStrikeFromFar(prev_strike, strike, prev_cumsum, cumsum) ==
    LET d == Abs(cumsum - prev_cumsum)
    IN  IF d > FlipEpsilon
        THEN <<prev_strike * d + Abs(cumsum) * (strike - prev_strike), d>>
        ELSE <<strike, 1>>

\* variant of FlipStrike: the ratio keeps the sign of prev_cumsum
FlipStrikeSigned(prev_strike, strike, prev_cumsum, cumsum) ==
    LET d == Abs(cumsum - prev_cumsum)
    IN  IF d > FlipEpsilon
        THEN <<prev_strike * d + prev_cumsum * (strike - prev_strike), d>>
        ELSE <<strike, 1>>

\* analytics.py:330-335  the crossing recorded between two strikes:
\* prev_strike + |prev_cumsum| / |cumsum - prev_cumsum| * (strike - prev_strike)
FlipStrike(prev_strike, strike, prev_cumsum, cumsum) ==
    LET d == Abs(cumsum - prev_cumsum)
    IN  IF d > FlipEpsilon
        THEN <<prev_strike * d + Abs(prev_cumsum) * (strike - prev_strike), d>>
        ELSE <<strike, 1>>

\* analytics.py:328  the sign change test of the scan
SignChanged(prev_cumsum, cumsum) == prev_cumsum * cumsum < 0

\* analytics.py:320-336  the scan: the crossings in the order they are found
ZeroCrossings(ladder) ==
    LET zc[i \in 0..Len(ladder)] ==
            IF i = 0 THEN <<>>
            ELSE IF i > 1 /\ SignChanged(RunningSum(ladder, i - 1), RunningSum(ladder, i))
            THEN Append(zc[i - 1],
                        FlipStrike(ladder[i - 1].strike, ladder[i].strike,
                                   RunningSum(ladder, i - 1), RunningSum(ladder, i)))
            ELSE zc[i - 1]
    IN  zc[Len(ladder)]

\* |x - spot| of a fraction x, as a fraction
Distance(x, spot) == <<Abs(x[1] - spot * x[2]), x[2]>>

FracLess(a, b) == a[1] * b[2] < b[1] * a[2]

FracEq(a, b) == a[1] * b[2] = b[1] * a[2]

\* analytics.py:341  min(zero_crossings, key=|x - spot|): the first of the nearest
ClosestToSpot(crossings, spot) ==
    LET i == CHOOSE k \in 1..Len(crossings) :
                /\ \A j \in 1..(k - 1) :
                      FracLess(Distance(crossings[k], spot), Distance(crossings[j], spot))
                /\ \A j \in (k + 1)..Len(crossings) :
                      ~FracLess(Distance(crossings[j], spot), Distance(crossings[k], spot))
    IN  crossings[i]

\* variant of BalanceStrike: of several strikes of least |cumsum|, the last
BalanceStrikeLast(ladder) ==
    LET i == CHOOSE k \in 1..Len(ladder) :
                /\ \A j \in 1..(k - 1) :
                      Abs(RunningSum(ladder, k)) <= Abs(RunningSum(ladder, j))
                /\ \A j \in (k + 1)..Len(ladder) :
                      Abs(RunningSum(ladder, k)) < Abs(RunningSum(ladder, j))
    IN  ladder[i].strike

\* analytics.py:345-355  the fallback: the first strike of least |cumsum|
BalanceStrike(ladder) ==
    LET i == CHOOSE k \in 1..Len(ladder) :
                /\ \A j \in 1..(k - 1) :
                      Abs(RunningSum(ladder, k)) < Abs(RunningSum(ladder, j))
                /\ \A j \in (k + 1)..Len(ladder) :
                      Abs(RunningSum(ladder, k)) <= Abs(RunningSum(ladder, j))
    IN  ladder[i].strike

\* analytics.py:316-355
FindFlipPoint(ladder, spot) ==
    IF ladder = <<>> THEN Absent
    ELSE IF ZeroCrossings(ladder) # <<>>
    THEN <<ClosestToSpot(ZeroCrossings(ladder), spot)>>
    ELSE <<<<BalanceStrike(ladder), 1>>>>

\* the arguments of a call
FlipArguments ==
    /\ flip_pc = "call"
    /\ \E n \in 0..MaxStrikes :
          \E g \in [1..n -> -MaxGex..MaxGex] : gex_strikes = Ladder(n, g)
    /\ flip_spot \in FlipSpots
    /\ zero_crossings = <<>>
    /\ flip_point = Absent

\* analytics.py:303-355  the call
FlipCall ==
    /\ flip_pc = "call"
    /\ zero_crossings' = ZeroCrossings(gex_strikes)
    /\ flip_point' = FindFlipPoint(gex_strikes, flip_spot)
    /\ flip_pc' = "done"
    /\ UNCHANGED <<gex_strikes, flip_spot>>
    /\ UNCHANGED <<cvdVars, divVars, gexVars, painVars, pricingVars, tickerVars, daysVars, roundTripVars, chainVars, cacheVars, moneyVars>>

InitFlip == CvdIdle /\ DivIdle /\ FlipArguments /\ GexIdle /\ PainIdle /\ PricingIdle /\ TickerIdle /\ DaysIdle /\ RoundTripIdle /\ ChainIdle /\ CacheIdle /\ MoneyIdle

NextFlip == FlipCall

\* _find_flip_point on every ladder and spot of the bounds
SpecFlip == InitFlip /\ [][NextFlip]_vars

-----------------------------------------------------------------------------
(* Properties of _find_flip_point *)

\* the running sum of total_gex at the i-th strike of the ladder
CumulativeGex(i) ==
    LET RECURSIVE Sum(_)
        Sum(k) == IF k = 0 THEN 0 ELSE Sum(k - 1) + gex_strikes[k].total_gex
    IN  Sum(i)

OppositeSigns(c1, c2) == (c1 < 0 /\ c2 > 0) \/ (c1 > 0 /\ c2 < 0)

\* the positions i whose running sum has the opposite sign of that of i - 1
SignChangePairs ==
    SelectSeq([i \in 1..(Len(gex_strikes) - 1) |-> i + 1],
              LAMBDA i : OppositeSigns(CumulativeGex(i - 1), CumulativeGex(i)))

\* x = k1 + (|c1| / (|c1| + |c2|)) * (k2 - k1) for the pair of strikes ending at i
IsInterpolation(x, i) ==
    LET k1 == gex_strikes[i - 1].strike
        k2 == gex_strikes[i].strike
        c1 == Abs(CumulativeGex(i - 1))
        c2 == Abs(CumulativeGex(i))
    IN  x[1] * (c1 + c2) = x[2] * (k1 * (c1 + c2) + c1 * (k2 - k1))

\* x rounded to hundredths (half up), for x >= 0
Hundredths(x) == (200 * x[1] + x[2]) \div (2 * x[2])

\* C9 as claimed: for every pair of consecutive strikes whose running sums c1,
\* c2 have opposite signs, the crossing recorded is
\* k1 + (|c1| / (|c1| + |c2|)) * (k2 - k1), whatever the magnitudes.
C9_AlwaysInterpolated ==
    flip_pc = "done" =>
        /\ Len(zero_crossings) = Len(SignChangePairs)
        /\ \A j \in 1..Len(SignChangePairs) :
              IsInterpolation(zero_crossings[j], SignChangePairs[j])

\* C9 as amended: one crossing is recorded per pair of consecutive strikes
\* whose running sums c1, c2 have opposite signs, in ascending order; it is
\* k1 + (|c1| / (|c1| + |c2|)) * (k2 - k1) when |c1| + |c2| > 0.0001 and the
\* upper strike k2 when |c1| + |c2| <= 0.0001; running sums -2 at strike 100
\* and +1 at strike 200 give 500/3 = 166.67.
C9_InterpolatedAboveEpsilon ==
    flip_pc = "done" =>
        /\ Len(zero_crossings) = Len(SignChangePairs)
        /\ \A j \in 1..Len(SignChangePairs) :
              LET i == SignChangePairs[j]
                  c1 == Abs(CumulativeGex(i - 1))
                  c2 == Abs(CumulativeGex(i))
              IN  /\ zero_crossings[j][2] > 0
                  /\ c1 + c2 > FlipEpsilon => IsInterpolation(zero_crossings[j], i)
                  /\ c1 + c2 <= FlipEpsilon =>
                        FracEq(zero_crossings[j], <<gex_strikes[i].strike, 1>>)
        /\ ( /\ Len(gex_strikes) >= 2
             /\ CumulativeGex(1) = -2
             /\ CumulativeGex(2) = 1 )
           => /\ FracEq(zero_crossings[1], <<500, 3>>)
              /\ Hundredths(zero_crossings[1]) = 16667

\* the ladder of the example, followed by a crossing of magnitudes 1 and 1,
\* which is recorded at its upper strike
C9_Witness ==
    /\ flip_pc = "done"
    /\ Len(gex_strikes) = 3
    /\ CumulativeGex(1) = -2
    /\ CumulativeGex(2) = 1
    /\ CumulativeGex(3) = -1
    /\ Len(zero_crossings) = 2
    /\ FracEq(zero_crossings[1], <<500, 3>>)
    /\ FracEq(zero_crossings[2], <<350, 1>>)

\* the sign changes of the running sum along the ladder: the positions
\* <<a, b>> of two nonzero running sums of opposite signs with nothing but
\* zero running sums between them
SignChanges ==
    { p \in (1..Len(gex_strikes)) \X (1..Len(gex_strikes)) :
        /\ p[1] < p[2]
        /\ OppositeSigns(CumulativeGex(p[1]), CumulativeGex(p[2]))
        /\ \A m \in (p[1] + 1)..(p[2] - 1) : CumulativeGex(m) = 0 }

\* the crossings of a sign change: between consecutive strikes the recorded
\* one (interpolated above 0.0001, else the upper strike); through zero, the
\* strikes at which the running sum is zero
CrossingsOf(p) ==
    IF p[2] = p[1] + 1
    THEN LET k1 == gex_strikes[p[1]].strike
             k2 == gex_strikes[p[2]].strike
             c1 == Abs(CumulativeGex(p[1]))
             c2 == Abs(CumulativeGex(p[2]))
         IN  IF c1 + c2 > FlipEpsilon
             THEN {<<k1 * (c1 + c2) + c1 * (k2 - k1), c1 + c2>>}
             ELSE {<<k2, 1>>}
    ELSE {<<gex_strikes[m].strike, 1>> : m \in (p[1] + 1)..(p[2] - 1)}

\* C29: the crossing recorded for a sign change between the consecutive
\* strikes k1 < k2 is in (k1, k2]; so when a sign change exists, the flip
\* point returned is between the lowest and the highest strike of the ladder
\* and strictly positive.
C29_CrossingBetweenItsStrikes ==
    flip_pc = "done" =>
        /\ Len(zero_crossings) = Len(SignChangePairs)
        /\ \A j \in 1..Len(zero_crossings) :
              LET x == zero_crossings[j]
                  k1 == gex_strikes[SignChangePairs[j] - 1].strike
                  k2 == gex_strikes[SignChangePairs[j]].strike
              IN  /\ x[2] > 0
                  /\ k1 * x[2] < x[1]
                  /\ x[1] <= k2 * x[2]
        /\ zero_crossings # <<>> =>
              /\ flip_point # Absent
              /\ flip_point[1][2] > 0
              /\ gex_strikes[1].strike * flip_point[1][2] <= flip_point[1][1]
              /\ flip_point[1][1] <= gex_strikes[Len(gex_strikes)].strike * flip_point[1][2]
              /\ flip_point[1][1] > 0

\* two sign changes: the first recorded at the upper strike of its pair, the
\* second strictly between its strikes
C29_Witness ==
    /\ flip_pc = "done"
    /\ Len(zero_crossings) = 2
    /\ SignChangePairs = <<2, 4>>
    /\ zero_crossings[1] = <<gex_strikes[2].strike, 1>>
    /\ gex_strikes[3].strike * zero_crossings[2][2] < zero_crossings[2][1]
    /\ zero_crossings[2][1] < gex_strikes[4].strike * zero_crossings[2][2]
    /\ flip_point # Absent

\* C10 as claimed: when the running sum changes sign more than once, sign
\* changes through an exact zero at an intermediate strike included, the flip
\* point returned is a crossing, and no sign change has its crossing nearer
\* to spot.
C10_NearestOfAllCrossings ==
    (flip_pc = "done" /\ Cardinality(SignChanges) > 1) =>
        /\ flip_point # Absent
        /\ \E p \in SignChanges : \E x \in CrossingsOf(p) : FracEq(x, flip_point[1])
        /\ \A p \in SignChanges : \E x \in CrossingsOf(p) :
              ~FracLess(Distance(x, flip_spot), Distance(flip_point[1], flip_spot))

\* the positions of the ladder at which |running sum| is least
LeastPositions ==
    { i \in 1..Len(gex_strikes) :
        \A j \in 1..Len(gex_strikes) : Abs(CumulativeGex(i)) <= Abs(CumulativeGex(j)) }

\* C11: on a non-empty ladder whose running sum never changes sign, the flip
\* point returned is the strike of least |running sum|, the lowest strike
\* when several tie; no flip point is returned only for an empty ladder.
C11_FallbackBalanceStrike ==
    flip_pc = "done" =>
        /\ (flip_point = Absent) <=> (gex_strikes = <<>>)
        /\ (gex_strikes # <<>> /\ SignChanges = {}) =>
              \E i \in LeastPositions :
                  /\ flip_point = << <<gex_strikes[i].strike, 1>> >>
                  /\ \A j \in LeastPositions : i <= j

\* a ladder of one sign whose least |running sum| is reached at two strikes,
\* neither of them the first: the lower of the two is returned
C11_Witness ==
    /\ flip_pc = "done"
    /\ Len(gex_strikes) >= 3
    /\ SignChanges = {}
    /\ Cardinality(LeastPositions) = 2
    /\ 1 \notin LeastPositions
    /\ \A i \in 1..Len(gex_strikes) : CumulativeGex(i) # 0
    /\ \E i \in LeastPositions :
          /\ flip_point = << <<gex_strikes[i].strike, 1>> >>
          /\ \E j \in LeastPositions : i < j

-----------------------------------------------------------------------------
(* _find_max_pain *)

\* open interest of the call side and of the put side of a strike
CallOis == {0, 300, 500}

PutOis == {0, 700}

\* the ladder of n strikes whose sides hold the open interests c[i] and q[i]
OiLadder(n, c, q) ==
    [i \in 1..n |-> [strike |-> LadderStrike(i), call_oi |-> c[i], put_oi |-> q[i]]]

\* analytics.py:371  total_oi of the i-th strike
TotalOi(ladder, i) == ladder[i].call_oi + ladder[i].put_oi

\* analytics.py:367-374  the scan: max_oi starts at 0 and a strike replaces the
\* one held when its total_oi is strictly greater
MaxPainScan(ladder) ==
    LET scan[i \in 0..Len(ladder)] ==
            IF i = 0 THEN [max_oi |-> 0, max_pain_strike |-> Absent]
            ELSE IF TotalOi(ladder, i) > scan[i - 1].max_oi
            THEN [max_oi |-> TotalOi(ladder, i), max_pain_strike |-> <<ladder[i].strike>>]
            ELSE scan[i - 1]
    IN  scan[Len(ladder)]

\* analytics.py:364-376
FindMaxPain(ladder) ==
    IF ladder = <<>> THEN Absent ELSE MaxPainScan(ladder).max_pain_strike

\* the argument of a call
PainArguments ==
    /\ pain_pc = "call"
    /\ \E n \in 0..MaxStrikes :
          \E c \in [1..n -> CallOis], q \in [1..n -> PutOis] :
              pain_strikes = OiLadder(n, c, q)
    /\ max_pain = Absent

\* analytics.py:357-376  the call
PainCall ==
    /\ pain_pc = "call"
    /\ max_pain' = FindMaxPain(pain_strikes)
    /\ pain_pc' = "done"
    /\ UNCHANGED pain_strikes
    /\ UNCHANGED <<cvdVars, divVars, flipVars, gexVars, pricingVars, tickerVars, daysVars, roundTripVars, chainVars, cacheVars, moneyVars>>

InitPain == CvdIdle /\ DivIdle /\ FlipIdle /\ GexIdle /\ PainArguments /\ PricingIdle /\ TickerIdle /\ DaysIdle /\ RoundTripIdle /\ ChainIdle /\ CacheIdle /\ MoneyIdle

NextPain == PainCall

\* _find_max_pain on every ladder of the bounds
SpecPain == InitPain /\ [][NextPain]_vars

-----------------------------------------------------------------------------
(* Properties of _find_max_pain *)

\* the positions of the ladder whose call_oi + put_oi is greatest
GreatestOiPositions ==
    { i \in 1..Len(pain_strikes) :
        \A j \in 1..Len(pain_strikes) : TotalOi(pain_strikes, i) >= TotalOi(pain_strikes, j) }

\* C12 as claimed: on every non-empty ladder max pain is the strike of
\* greatest call_oi + put_oi, the lowest of them when several tie, including
\* when every strike has the same sum.
C12_MaxPainGreatestOi ==
    (pain_pc = "done" /\ pain_strikes # <<>>) =>
        \E i \in GreatestOiPositions :
            /\ max_pain = <<pain_strikes[i].strike>>
            /\ \A j \in GreatestOiPositions : i <= j

-----------------------------------------------------------------------------
(* PricingEngine.calculate_iv_and_greeks and calculate_row_greeks *)

(***************************************************************************)
(* The two kernels take the same steps: validation, the expired case, the  *)
(* implied volatility solve, then delta, gamma, theta and vega, all four   *)
(* inside one try block.  The solver and the Greeks are py_vollib's: a     *)
(* call of one either returns a number or raises, and the model takes      *)
(* both; the numbers themselves are not computed.  Time is in days.        *)
(***************************************************************************)

Kernels == {"engine", "row"}

PriceSpots == {0, 90, 110}

PriceStrikes == {0, 100}

MarketPrices == {0, 10}

ExpiryDays == {-1, 0, 30}

\* option types as the callers write them, one that neither kernel knows, and None
OptionTypeWords == {<<"call">>, <<"put">>, <<"C">>, <<"V">>, <<"X">>, Absent}

PriceArgumentSets ==
    [spot : PriceSpots, strike : PriceStrikes, days : ExpiryDays,
     market_price : MarketPrices, option_type : OptionTypeWords]

\* what the solver returns when it returns, and what a Greek does
SolvedIvs == {25}

GreekValues == {5}

\* pricing_engine.py:69, 74  the flag of an option type: membership in
\* ['call', 'put', 'c', 'p'] is tested as written, None is in no list
EngineFlag(option_type) ==
    IF option_type = <<"call">> THEN "c"
    ELSE IF option_type = <<"put">> THEN "p"
    ELSE "invalid"

\* greeks.py:77-83  the flag of an option type, tested in upper case;
\* None.upper() raises
RowFlag(option_type) ==
    IF option_type = Absent THEN "raises"
    ELSE IF option_type \in {<<"call">>, <<"C">>} THEN "c"
    ELSE IF option_type \in {<<"put">>, <<"V">>} THEN "p"
    ELSE "invalid"

Flag(k, a) == IF k = "engine" THEN EngineFlag(a.option_type) ELSE RowFlag(a.option_type)

\* pricing_engine.py:61-71  the error of the validation, <<>> when there is none
EngineValidation(a) ==
    IF a.days < 0 THEN <<"Days to expiry cannot be negative">>
    ELSE IF a.spot <= 0 \/ a.strike <= 0 \/ a.market_price <= 0
    THEN <<"Prices must be positive">>
    ELSE IF EngineFlag(a.option_type) = "invalid" THEN <<"Invalid option type">>
    ELSE Absent

\* variant of RowValidation: the time to expiry is not validated
RowValidationWithoutTime(a) ==
    IF a.spot <= 0 \/ a.strike <= 0 THEN <<"Spot and strike prices must be positive">>
    ELSE IF a.market_price <= 0 THEN <<"Market price must be positive">>
    ELSE IF RowFlag(a.option_type) = "invalid" THEN <<"Invalid option type">>
    ELSE Absent

\* greeks.py:62-83  the error of the validation, <<>> when there is none
RowValidation(a) ==
    IF a.spot <= 0 \/ a.strike <= 0 THEN <<"Spot and strike prices must be positive">>
    ELSE IF a.market_price <= 0 THEN <<"Market price must be positive">>
    ELSE IF a.days < 0 THEN <<"Time to expiry cannot be negative">>
    ELSE IF RowFlag(a.option_type) = "invalid" THEN <<"Invalid option type">>
    ELSE Absent

Validation(k, a) == IF k = "engine" THEN EngineValidation(a) ELSE RowValidation(a)

\* pricing_engine.py:86  delta of an expired option
EngineExpiredDelta(flag, a) == IF flag = "c" /\ a.spot > a.strike THEN 1 ELSE 0

\* greeks.py:89-94  delta of an expired option
RowExpiredDelta(flag, a) ==
    IF flag = "c" THEN (IF a.spot > a.strike THEN 1 ELSE 0)
    ELSE (IF a.strike > a.spot THEN -1 ELSE 0)

\* pricing_engine.py:82-92, greeks.py:86-100  the result for an expired option
ExpiredResult(k, a) ==
    [iv |-> <<0>>,
     delta |-> <<IF k = "engine" THEN EngineExpiredDelta(Flag(k, a), a)
                 ELSE RowExpiredDelta(Flag(k, a), a)>>,
     gamma |-> <<0>>, theta |-> <<0>>, vega |-> <<0>>,
     error |-> <<"Option has expired">>]

\* the arguments of a call
PriceArguments ==
    /\ price_pc = "call"
    /\ kernel \in Kernels
    /\ \E a \in PriceArgumentSets : arguments = <<a>>
    /\ result = EmptyResult
    /\ solver_calls = 0

\* pricing_engine.py:51-92, greeks.py:52-100  the call up to the try block
PriceCall ==
    /\ price_pc = "call"
    /\ LET a == arguments[1]
       IN  IF Validation(kernel, a) # Absent
           THEN /\ result' = [result EXCEPT !.error = Validation(kernel, a)]
                /\ price_pc' = "done"
           ELSE IF Flag(kernel, a) = "raises"
           THEN /\ result' = result
                /\ price_pc' = "raised"
           ELSE IF a.days <= 0
           THEN /\ result' = ExpiredResult(kernel, a)
                /\ price_pc' = "done"
           ELSE /\ result' = result
                /\ price_pc' = "solve_iv"
    /\ UNCHANGED <<kernel, arguments, solver_calls>>
    /\ UNCHANGED <<cvdVars, divVars, flipVars, gexVars, painVars, tickerVars, daysVars, roundTripVars, chainVars, cacheVars, moneyVars>>

\* pricing_engine.py:97-105, greeks.py:106-119  the solver returns and iv is stored
SolveIv ==
    /\ price_pc = "solve_iv"
    /\ solver_calls' = solver_calls + 1
    /\ \E iv_value \in SolvedIvs : result' = [result EXCEPT !.iv = <<iv_value>>]
    /\ price_pc' = "delta"
    /\ UNCHANGED <<kernel, arguments>>
    /\ UNCHANGED <<cvdVars, divVars, flipVars, gexVars, painVars, tickerVars, daysVars, roundTripVars, chainVars, cacheVars, moneyVars>>

\* pricing_engine.py:113-114, greeks.py:131-138  the solver raises: the
\* except clause sets the error and leaves the rest of the result as it is
SolveIvRaises ==
    /\ price_pc = "solve_iv"
    /\ solver_calls' = solver_calls + 1
    /\ result' = [result EXCEPT !.error = <<"Calculation error">>]
    /\ price_pc' = "done"
    /\ UNCHANGED <<kernel, arguments>>
    /\ UNCHANGED <<cvdVars, divVars, flipVars, gexVars, painVars, tickerVars, daysVars, roundTripVars, chainVars, cacheVars, moneyVars>>

\* pricing_engine.py:108-111, greeks.py:124-127  a Greek returns and is stored
EvalGreek(greek, then) ==
    /\ price_pc = greek
    /\ \E v \in GreekValues : result' = [result EXCEPT ![greek] = <<v>>]
    /\ price_pc' = then
    /\ UNCHANGED <<kernel, arguments, solver_calls>>
    /\ UNCHANGED <<cvdVars, divVars, flipVars, gexVars, painVars, tickerVars, daysVars, roundTripVars, chainVars, cacheVars, moneyVars>>

\* pricing_engine.py:113-114, greeks.py:131-138  a Greek raises
EvalGreekRaises ==
    /\ price_pc \in {"delta", "gamma", "theta", "vega"}
    /\ result' = [result EXCEPT !.error = <<"Calculation error">>]
    /\ price_pc' = "done"
    /\ UNCHANGED <<kernel, arguments, solver_calls>>
    /\ UNCHANGED <<cvdVars, divVars, flipVars, gexVars, painVars, tickerVars, daysVars, roundTripVars, chainVars, cacheVars, moneyVars>>

InitPricing == CvdIdle /\ DivIdle /\ FlipIdle /\ GexIdle /\ PainIdle /\ PriceArguments /\ TickerIdle /\ DaysIdle /\ RoundTripIdle /\ ChainIdle /\ CacheIdle /\ MoneyIdle

NextPricing ==
    \/ PriceCall
    \/ SolveIv
    \/ SolveIvRaises
    \/ EvalGreek("delta", "gamma")
    \/ EvalGreek("gamma", "theta")
    \/ EvalGreek("theta", "vega")
    \/ EvalGreek("vega", "done")
    \/ EvalGreekRaises

\* the two kernels on every argument set of the model
SpecPricing == InitPricing /\ [][NextPricing]_vars

-----------------------------------------------------------------------------
(* Properties of the pricing kernels *)

\* the five numbers of the result
Numbers == {"iv", "delta", "gamma", "theta", "vega"}

AllAbsent == \A f \in Numbers : result[f] = Absent

AllPresent == \A f \in Numbers : result[f] # Absent

\* C16: when spot <= 0, strike <= 0, market_price <= 0 or the time to expiry
\* is negative, either kernel returns without raising, the result has its
\* error set and iv, delta, gamma, theta and vega absent, and the solver is
\* never called.
C16_PreconditionsBeforeSolver ==
    (/\ price_pc # "call"
     /\ price_pc # "idle"
     /\ \/ arguments[1].spot <= 0
        \/ arguments[1].strike <= 0
        \/ arguments[1].market_price <= 0
        \/ arguments[1].days < 0) =>
        /\ price_pc = "done"
        /\ result.error # Absent
        /\ AllAbsent
        /\ solver_calls = 0

\* the row kernel has returned on a negative time to expiry, all else valid
C16_Witness ==
    /\ price_pc = "done"
    /\ kernel = "row"
    /\ arguments[1].days < 0
    /\ arguments[1].spot > 0
    /\ arguments[1].strike > 0
    /\ arguments[1].market_price > 0
    /\ arguments[1].option_type = <<"V">>
    /\ result.error = <<"Time to expiry cannot be negative">>
    /\ AllAbsent

\* C17 as claimed: for an expired contract with valid inputs both kernels
\* skip the solver and return delta 1 for a call with spot > strike and 0 in
\* every other case, every put included, with gamma, theta, vega and iv 0.
C17_ExpiredDelta ==
    (/\ price_pc \notin {"call", "idle", "raised"}
     /\ arguments[1].days = 0
     /\ arguments[1].spot > 0
     /\ arguments[1].strike > 0
     /\ arguments[1].market_price > 0
     /\ Flag(kernel, arguments[1]) \in {"c", "p"}) =>
        /\ price_pc = "done"
        /\ solver_calls = 0
        /\ result.delta = <<IF Flag(kernel, arguments[1]) = "c"
                               /\ arguments[1].spot > arguments[1].strike
                            THEN 1 ELSE 0>>
        /\ result.gamma = <<0>>
        /\ result.theta = <<0>>
        /\ result.vega = <<0>>
        /\ result.iv = <<0>>

\* C18 as claimed: when the solve or the evaluation of a Greek fails, the
\* result has its error set and iv, delta, gamma, theta and vega absent, and
\* no result has some of the five present and others absent.
C18_NoPartialGreeks ==
    price_pc = "done" =>
        /\ AllAbsent \/ AllPresent
        /\ result.error = <<"Calculation error">> => AllAbsent

-----------------------------------------------------------------------------
(* MarketDataService._parse_option_ticker *)

(***************************************************************************)
(* A ticker is a sequence of characters.  A strike is the exact fraction   *)
(* <<numerator, denominator>> of its decimal numeral.                      *)
(***************************************************************************)

\* the tickers given to the parser: a head, a strike substring and a tail,
\* each well formed or not
TickerHeads ==
    { <<"A", "B", "C", "C">>,
      <<"A", "B", "V">>,
      <<"A", "C">>,
      <<"A", "B", "C", "D", "E", "C">>,
      <<"A", "B", "C", "D", "C">>,
      <<"A", "B", "C", "X">>,
      <<"a", "b", "c", "c">>,
      <<" ", "A", "B", "C", "C">>,
      <<>>,
      <<"A", "B", ".", "C">> }

TickerStrikes ==
    { <<"3", "0", "0", "0">>,
      <<"2", "0", "0", "0", "0">>,
      <<"2", "0", "0", "0", "1">>,
      <<"9", "7", "5", "3", "9">>,
      <<"2", "5", "0", "0", "0", "0">>,
      <<"9", "7", "5", "3", "9", ".", "5">>,
      <<"3", "0", "0", "0", ".">>,
      <<"3", "0", ".", "0", "0">>,
      <<>>,
      <<".", "5">>,
      <<"3", "0", "0", "0", ".", ".">>,
      <<"0">>,
      <<"0", ".", "0">> }

TickerTails ==
    { <<"D">>,
      <<"F", "E">>,
      <<".", "F", "E">>,
      <<"D", "E", "F">>,
      <<>>,
      <<"D", " ">>,
      <<"1">>,
      <<".", "D">> }

UpperLetters == {"A", "B", "C", "D", "E", "F", "V", "X"}

DigitChars == <<"0", "1", "2", "3", "4", "5", "6", "7", "8", "9">>

IsDigit(c) == \E d \in 1..10 : DigitChars[d] = c

DigitValue(c) == (CHOOSE d \in 1..10 : DigitChars[d] = c) - 1

\* str.upper() on one character
UpperChar(c) ==
    IF c = "a" THEN "A" ELSE IF c = "b" THEN "B" ELSE IF c = "c" THEN "C" ELSE c

\* market_data.py:131  ticker.upper()
Upper(t) == [i \in 1..Len(t) |-> UpperChar(t[i])]

\* market_data.py:131  .strip()
Strip(t) ==
    LET RECURSIVE Trim(_)
        Trim(u) == IF u # <<>> /\ u[1] = " " THEN Trim(Tail(u))
                   ELSE IF u # <<>> /\ u[Len(u)] = " " THEN Trim(SubSeq(u, 1, Len(u) - 1))
                   ELSE u
    IN  Trim(t)

AllLetters(u) == \A i \in 1..Len(u) : u[i] \in UpperLetters

AllDigits(u) == \A i \in 1..Len(u) : IsDigit(u[i])

\* \d+\.?\d*  on a whole string
DecimalNumeral(u) ==
    /\ u # <<>>
    /\ IsDigit(u[1])
    /\ \A i \in 1..Len(u) : IsDigit(u[i]) \/ u[i] = "."
    /\ Cardinality({i \in 1..Len(u) : u[i] = "."}) <= 1

\* ^([A-Z]{2,4})([CV]) followed by a digit: the length of the symbol, 0 when
\* t does not start so
SymbolLength(t) ==
    LET heads == { a \in 2..4 : /\ Len(t) >= a + 2
                                /\ AllLetters(SubSeq(t, 1, a))
                                /\ t[a + 1] \in {"C", "V"}
                                /\ IsDigit(t[a + 2]) }
    IN  IF heads = {} THEN 0 ELSE CHOOSE a \in heads : TRUE

\* the groups of a match whose symbol has a letters and whose month code is
\* the last m characters, after sep characters of separator
GroupsOf(t, a, sep, m) ==
    << SubSeq(t, 1, a), t[a + 1],
       SubSeq(t, a + 2, Len(t) - m - sep), SubSeq(t, Len(t) - m + 1, Len(t)) >>

\* market_data.py:137  ^([A-Z]{2,4})([CV])(\d+)([A-Z]{1,2})$
Pattern1(t) ==
    LET a == SymbolLength(t)
        months == { m \in 1..2 : /\ Len(t) >= a + 2 + m
                                 /\ AllDigits(GroupsOf(t, a, 0, m)[3])
                                 /\ AllLetters(GroupsOf(t, a, 0, m)[4]) }
    IN  IF a = 0 \/ months = {} THEN Absent
        ELSE <<GroupsOf(t, a, 0, CHOOSE m \in months : TRUE)>>

\* market_data.py:140  ^([A-Z]{2,4})([CV])(\d+\.?\d*)\.([A-Z]{2})$
Pattern2(t) ==
    LET a == SymbolLength(t)
    IN  IF /\ a # 0
           /\ Len(t) >= a + 5
           /\ t[Len(t) - 2] = "."
           /\ DecimalNumeral(GroupsOf(t, a, 1, 2)[3])
           /\ AllLetters(GroupsOf(t, a, 1, 2)[4])
        THEN <<GroupsOf(t, a, 1, 2)>>
        ELSE Absent

\* market_data.py:143  ^([A-Z]{2,4})([CV])(\d+\.?\d*)([A-Z]{2})$
Pattern3(t) ==
    LET a == SymbolLength(t)
    IN  IF /\ a # 0
           /\ Len(t) >= a + 4
           /\ DecimalNumeral(GroupsOf(t, a, 0, 2)[3])
           /\ AllLetters(GroupsOf(t, a, 0, 2)[4])
        THEN <<GroupsOf(t, a, 0, 2)>>
        ELSE Absent

\* variant of Patterns: the pattern with the dot before the month is tried last
PatternsDotLast(t) == <<Pattern1(t), Pattern3(t), Pattern2(t)>>

\* market_data.py:134-144  the matches of the patterns, in the order of the list
Patterns(t) == <<Pattern1(t), Pattern2(t), Pattern3(t)>>

\* market_data.py:146-153  the first pattern that matches; pattern_used is its
\* index from 0, and stays 0 when none matches
FirstMatch(t) ==
    LET hits == { i \in 1..3 : Patterns(t)[i] # Absent }
    IN  IF hits = {} THEN [pattern_used |-> 0, match |-> Absent]
        ELSE LET i == CHOOSE k \in hits : \A j \in hits : k <= j
             IN  [pattern_used |-> i - 1, match |-> Patterns(t)[i]]

\* the number written by a string of digits
DigitsValue(u) ==
    LET RECURSIVE Value(_)
        Value(k) == IF k = 0 THEN 0 ELSE 10 * Value(k - 1) + DigitValue(u[k])
    IN  Value(Len(u))

Power10(k) ==
    LET RECURSIVE P(_)
        P(j) == IF j = 0 THEN 1 ELSE 10 * P(j - 1)
    IN  P(k)

\* market_data.py:172  float(strike_str)
StrikeValue(strike_str) ==
    LET dots == { i \in 1..Len(strike_str) : strike_str[i] = "." }
    IN  IF dots = {} THEN <<DigitsValue(strike_str), 1>>
        ELSE LET d == CHOOSE i \in dots : TRUE
                 decimals == Len(strike_str) - d
             IN  << DigitsValue(SubSeq(strike_str, 1, d - 1)) * Power10(decimals)
                      + DigitsValue(SubSeq(strike_str, d + 1, Len(strike_str))),
                    Power10(decimals) >>

\* market_data.py:179
StrikeThreshold == 20000

HasDot(strike_str) == \E i \in 1..Len(strike_str) : strike_str[i] = "."

\* variant of NormalizedStrike: the threshold itself is divided too
NormalizedStrikeFromThreshold(strike_str) ==
    LET strike == StrikeValue(strike_str)
    IN  IF strike[1] >= StrikeThreshold * strike[2] /\ ~HasDot(strike_str)
        THEN <<strike[1], strike[2] * 10>>
        ELSE strike

\* market_data.py:172-180  the strike, divided by 10 when it is above the
\* threshold and written without a decimal point
NormalizedStrike(strike_str) ==
    LET strike == StrikeValue(strike_str)
    IN  IF strike[1] > StrikeThreshold * strike[2] /\ ~HasDot(strike_str)
        THEN <<strike[1], strike[2] * 10>>
        ELSE strike

\* market_data.py:131-193
ParseOptionTicker(raw) ==
    LET t == Strip(Upper(raw))
        m == FirstMatch(t)
    IN  IF m.match = Absent THEN Absent
        ELSE << [ symbol |-> m.match[1][1],
                  option_type |-> IF m.match[1][2] = "C" THEN "call" ELSE "put",
                  strike |-> NormalizedStrike(m.match[1][3]),
                  month_code |-> m.match[1][4],
                  original_ticker |-> t ] >>

\* the argument of a call
TickerArguments ==
    /\ ticker_pc = "call"
    /\ \E h \in TickerHeads, k \in TickerStrikes, e \in TickerTails : ticker = h \o k \o e
    /\ pattern_used = 0
    /\ groups = Absent
    /\ parsed = Absent

\* market_data.py:107-193  the call
ParseCall ==
    /\ ticker_pc = "call"
    /\ pattern_used' = FirstMatch(Strip(Upper(ticker))).pattern_used
    /\ groups' = FirstMatch(Strip(Upper(ticker))).match
    /\ parsed' = ParseOptionTicker(ticker)
    /\ ticker_pc' = "done"
    /\ UNCHANGED ticker
    /\ UNCHANGED <<cvdVars, divVars, flipVars, gexVars, painVars, pricingVars, daysVars, roundTripVars, chainVars, cacheVars, moneyVars>>

InitTicker == CvdIdle /\ DivIdle /\ FlipIdle /\ GexIdle /\ PainIdle /\ PricingIdle /\ TickerArguments /\ DaysIdle /\ RoundTripIdle /\ ChainIdle /\ CacheIdle /\ MoneyIdle

NextTicker == ParseCall

\* _parse_option_ticker on every ticker of the model
SpecTicker == InitTicker /\ [][NextTicker]_vars

-----------------------------------------------------------------------------
(* Properties of _parse_option_ticker *)

\* the ticker as the patterns see it
Normalized == Strip(Upper(ticker))

\* g is a way to cut u into the four groups of pattern i (from 0)
CutBy(i, g, u) ==
    /\ Len(g[1]) \in 2..4
    /\ AllLetters(g[1])
    /\ g[2] \in {"C", "V"}
    /\ AllLetters(g[4])
    /\ IF i = 0
       THEN /\ g[3] # <<>>
            /\ AllDigits(g[3])
            /\ Len(g[4]) \in 1..2
            /\ u = g[1] \o <<g[2]>> \o g[3] \o g[4]
       ELSE /\ DecimalNumeral(g[3])
            /\ Len(g[4]) = 2
            /\ u = g[1] \o <<g[2]>> \o g[3] \o (IF i = 1 THEN <<".">> ELSE <<>>) \o g[4]

\* every way to cut u into a symbol, one character, a strike and a month
\* code, with or without a dot before the month code
Cuts(u) ==
    { << SubSeq(u, 1, a), u[a + 1], SubSeq(u, a + 2, b), SubSeq(u, c, Len(u)) >> :
        a \in 0..(Len(u) - 1), b \in 0..Len(u), c \in 1..(Len(u) + 1) }

MatchedBy(i, u) == \E g \in Cuts(u) : CutBy(i, g, u)

\* C19: the parser returns None exactly when none of the three patterns
\* matches the upper-cased, stripped ticker; otherwise the pattern used is the
\* first that matches, the groups are a cut of the ticker by that pattern and
\* the result holds the symbol, the side (C is call, V is put) and the month
\* code of those groups.
C19_FirstPatternWins ==
    ticker_pc = "done" =>
        /\ (parsed = Absent) <=> (\A i \in 0..2 : ~MatchedBy(i, Normalized))
        /\ parsed # Absent =>
              /\ MatchedBy(pattern_used, Normalized)
              /\ \A i \in 0..(pattern_used - 1) : ~MatchedBy(i, Normalized)
              /\ CutBy(pattern_used, groups[1], Normalized)
              /\ parsed[1].symbol = groups[1][1]
              /\ parsed[1].option_type = (IF groups[1][2] = "C" THEN "call" ELSE "put")
              /\ parsed[1].month_code = groups[1][4]
              /\ parsed[1].original_ticker = Normalized

\* ABCC3000D is parsed by the first pattern as root ABC, call, strike 3000,
\* expiry D
C19_Witness ==
    /\ ticker_pc = "done"
    /\ ticker = <<"A", "B", "C", "C", "3", "0", "0", "0", "D">>
    /\ pattern_used = 0
    /\ parsed = << [ symbol |-> <<"A", "B", "C">>, option_type |-> "call",
                     strike |-> <<3000, 1>>, month_code |-> <<"D">>,
                     original_ticker |-> ticker ] >>

\* the digits of the strike substring read as one number, the dot left out
ScaledStrike ==
    DigitsValue(SelectSeq(groups[1][3], LAMBDA c : c # "."))

\* the number of digits after the dot of the strike substring
Decimals ==
    IF HasDot(groups[1][3])
    THEN Len(groups[1][3]) - (CHOOSE i \in 1..Len(groups[1][3]) : groups[1][3][i] = ".")
    ELSE 0

\* C20: the strike returned is n / 10 when the strike substring has no
\* decimal point and its value n is above 20000, and n otherwise; 20000 is
\* left as it is and an n above 200000 gives a strike above 20000.
C20_StrikeDividedOnce ==
    (ticker_pc = "done" /\ parsed # Absent) =>
        LET strike == parsed[1].strike
        IN  IF ~HasDot(groups[1][3]) /\ ScaledStrike > 20000
            THEN /\ 10 * strike[1] = ScaledStrike * strike[2]
                 /\ ScaledStrike > 200000 => strike[1] > 20000 * strike[2]
            ELSE strike[1] * Power10(Decimals) = ScaledStrike * strike[2]

\* 97539 before a dot and a month code is parsed by the second pattern and
\* divided to 9753.9
C20_Witness ==
    /\ ticker_pc = "done"
    /\ pattern_used = 1
    /\ groups = << << <<"A", "B", "C">>, "C", <<"9", "7", "5", "3", "9">>, <<"F", "E">> >> >>
    /\ parsed # Absent
    /\ parsed[1].strike = <<97539, 10>>

\* the strike substring of a cut denotes zero
ZeroStrike(g) == DigitsValue(SelectSeq(g[3], LAMBDA c : c # ".")) = 0

\* C21 as claimed: a result other than None has a strictly positive strike,
\* the side call for the letter C and put for the letter V, a root of 2 to 4
\* letters and an expiry code of 1 or 2 letters; a ticker whose strike digits
\* denote 0 gives None.
C21_ParsedContractValid ==
    ticker_pc = "done" =>
        /\ parsed # Absent =>
              /\ parsed[1].strike[1] > 0
              /\ parsed[1].strike[2] > 0
              /\ groups[1][2] \in {"C", "V"}
              /\ parsed[1].option_type = "call" <=> groups[1][2] = "C"
              /\ parsed[1].option_type = "put" <=> groups[1][2] = "V"
              /\ Len(parsed[1].symbol) \in 2..4
              /\ AllLetters(parsed[1].symbol)
              /\ Len(parsed[1].month_code) \in 1..2
              /\ AllLetters(parsed[1].month_code)
        /\ (\E i \in 0..2 : \E g \in Cuts(Normalized) :
                CutBy(i, g, Normalized) /\ ZeroStrike(g)) => parsed = Absent

-----------------------------------------------------------------------------
(* MarketDataService._get_days_to_expiry *)

(***************************************************************************)
(* A date and time is [year, month, day, second], second being the second  *)
(* of the day.  The difference of two of them is counted in seconds and    *)
(* timedelta.days is its floor in days.                                    *)
(***************************************************************************)

\* the month codes given to the function: of both tables, in lower case,
\* unknown, empty
MonthCodes ==
    { <<"A">>,
      <<"L">>,
      <<"C">>,
      <<"b">>,
      <<"F", "E">>,
      <<"a", "b">>,
      <<"D", "I", "C">>,
      <<"M", "R">>,
      <<"M", "A">>,
      <<"Z", "Z">>,
      <<>>,
      <<"M">>,
      <<"A", "B", "C", "D">> }

\* the values of datetime.now()
NowYears == {2024, 2025}

NowMonths == {1, 2, 3, 12}

NowDays == {1, 14, 15, 16, 28, 29, 31}

NowSeconds == {0, 17 * 3600 - 1, 17 * 3600, 17 * 3600 + 1, 86399}

\* market_data.py:203-206
month_map_single ==
    { <<<<"A">>, 1>>, <<<<"B">>, 2>>, <<<<"C">>, 3>>,
      <<<<"D">>, 4>>, <<<<"E">>, 5>>, <<<<"F">>, 6>>,
      <<<<"G">>, 7>>, <<<<"H">>, 8>>, <<<<"I">>, 9>>,
      <<<<"J">>, 10>>, <<<<"K">>, 11>>, <<<<"L">>, 12>> }

\* market_data.py:209-216
month_map_double ==
    { <<<<"E", "N">>, 1>>, <<<<"F", "E">>, 2>>, <<<<"M", "A">>, 3>>,
      <<<<"A", "B">>, 4>>, <<<<"M", "Y">>, 5>>, <<<<"J", "U">>, 6>>,
      <<<<"J", "L">>, 7>>, <<<<"A", "G">>, 8>>, <<<<"S", "E">>, 9>>,
      <<<<"O", "C">>, 10>>, <<<<"N", "O">>, 11>>, <<<<"D", "I">>, 12>>,
      <<<<"E", "N", "E">>, 1>>, <<<<"F", "E", "B">>, 2>>, <<<<"M", "A", "R">>, 3>>,
      <<<<"A", "B", "R">>, 4>>, <<<<"M", "A", "Y">>, 5>>, <<<<"J", "U", "N">>, 6>>,
      <<<<"J", "U", "L">>, 7>>, <<<<"A", "G", "O">>, 8>>, <<<<"S", "E", "P">>, 9>>,
      <<<<"O", "C", "T">>, 10>>, <<<<"N", "O", "V">>, 11>>, <<<<"D", "I", "C">>, 12>>,
      <<<<"M", "R">>, 3>>, <<<<"J", "A">>, 1>>, <<<<"F", "B">>, 2>> }

\* dict.get: <<value>>, or <<>> for None
MonthGet(map, key) ==
    IF \E e \in map : e[1] = key
    THEN <<(CHOOSE e \in map : e[1] = key)[2]>>
    ELSE Absent

\* variant of ResolveMonth: only the single-letter table is consulted
ResolveMonthSingleOnly(month_code) == MonthGet(month_map_single, Upper(month_code))

\* market_data.py:200, 219  month_map_double.get(code) or month_map_single.get(code)
ResolveMonth(month_code) ==
    LET double == MonthGet(month_map_double, Upper(month_code))
    IN  IF double # Absent /\ double[1] # 0 THEN double
        ELSE MonthGet(month_map_single, Upper(month_code))

IsLeap(y) == (y % 4 = 0 /\ y % 100 # 0) \/ y % 400 = 0

DaysInMonth(y, m) ==
    IF m = 2 THEN (IF IsLeap(y) THEN 29 ELSE 28)
    ELSE IF m \in {4, 6, 9, 11} THEN 30 ELSE 31

BaseYear == 2024

\* the days from 1 January of BaseYear to a date
DayNumber(y, m, d) ==
    LET RECURSIVE YearDays(_), MonthDays(_)
        YearDays(yy) == IF yy = BaseYear THEN 0
                        ELSE YearDays(yy - 1) + (IF IsLeap(yy - 1) THEN 366 ELSE 365)
        MonthDays(mm) == IF mm = 1 THEN 0 ELSE MonthDays(mm - 1) + DaysInMonth(y, mm - 1)
    IN  YearDays(y) + MonthDays(m) + (d - 1)

SecondsPerDay == 86400

Instant(t) == DayNumber(t.year, t.month, t.day) * SecondsPerDay + t.second

\* market_data.py:248  (expiry_date - now).days
DeltaDays(later, earlier) ==
    LET seconds == Instant(later) - Instant(earlier)
    IN  IF seconds >= 0 THEN seconds \div SecondsPerDay
        ELSE -((-seconds + SecondsPerDay - 1) \div SecondsPerDay)

\* variant of ExpiryYear: the current month is rolled to the next year too
ExpiryYearRollingCurrentMonth(month, t) ==
    IF month <= t.month THEN t.year + 1 ELSE t.year

\* market_data.py:227-238  the next year when the month is before the current one
ExpiryYear(month, t) ==
    IF month < t.month THEN t.year + 1 ELSE t.year

\* market_data.py:241-245  the 15th of the month at 17:00; day 15 exists in
\* every month, so datetime() does not raise
ExpiryDate(month, t) ==
    [year |-> ExpiryYear(month, t), month |-> month, day |-> 15, second |-> 17 * 3600]

\* market_data.py:223
DefaultDays == 30

\* variant of AtLeastOneDay: the difference in days as it is
AtLeastOneDayNotClamped(days) == days

\* market_data.py:251  max(1, days)
AtLeastOneDay(days) == IF days > 1 THEN days ELSE 1

\* market_data.py:200-251
GetDaysToExpiry(month_code, t) ==
    LET month == ResolveMonth(month_code)
    IN  IF month = Absent \/ month[1] = 0 THEN DefaultDays
        ELSE AtLeastOneDay(DeltaDays(ExpiryDate(month[1], t), t))

\* the argument of a call and the clock
DaysArguments ==
    /\ days_pc = "call"
    /\ code \in MonthCodes
    /\ \E y \in NowYears, m \in NowMonths, d \in NowDays, sec \in NowSeconds :
          /\ d <= DaysInMonth(y, m)
          /\ now = [year |-> y, month |-> m, day |-> d, second |-> sec]
    /\ expiry_date = Absent
    /\ days_to_expiry = Absent

\* market_data.py:195-251  the call
DaysCall ==
    /\ days_pc = "call"
    /\ expiry_date' = (IF ResolveMonth(code) = Absent THEN Absent
                       ELSE <<ExpiryDate(ResolveMonth(code)[1], now)>>)
    /\ days_to_expiry' = <<GetDaysToExpiry(code, now)>>
    /\ days_pc' = "done"
    /\ UNCHANGED <<code, now>>
    /\ UNCHANGED <<cvdVars, divVars, flipVars, gexVars, painVars, pricingVars, tickerVars, roundTripVars, chainVars, cacheVars, moneyVars>>

InitDays == CvdIdle /\ DivIdle /\ FlipIdle /\ GexIdle /\ PainIdle /\ PricingIdle /\ TickerIdle /\ DaysArguments /\ RoundTripIdle /\ ChainIdle /\ CacheIdle /\ MoneyIdle

NextDays == DaysCall

\* _get_days_to_expiry on every month code and clock of the model
SpecDays == InitDays /\ [][NextDays]_vars

-----------------------------------------------------------------------------
(* Properties of _get_days_to_expiry *)

\* the expiry instant is before the clock
ExpiryPassed == expiry_date # Absent /\ Instant(expiry_date[1]) < Instant(now)

\* C22: the function returns an integer of at least 1 for every month code
\* and every clock, so the time to expiry handed to the pricing kernel,
\* days / 365, is strictly positive.
C22_AtLeastOneDay ==
    days_pc = "done" =>
        /\ days_to_expiry # Absent
        /\ days_to_expiry[1] \in Nat
        /\ days_to_expiry[1] >= 1
        /\ days_to_expiry[1] * 1 > 0 * 365

\* the code's month is the current month, the 15th has passed, 1 is returned
C22_Witness ==
    /\ days_pc = "done"
    /\ ExpiryPassed
    /\ expiry_date[1].month = now.month
    /\ now.day = 16
    /\ days_to_expiry = <<1>>

\* the month of the upper-cased code in a table, 0 when it is not a key
MonthIn(map) ==
    IF \E e \in map : e[1] = Upper(code)
    THEN (CHOOSE e \in map : e[1] = Upper(code))[2]
    ELSE 0

\* C23: the code is looked up in the multi-letter table first and in the
\* single-letter table otherwise; a code found in neither gives exactly 30,
\* whatever the clock.
C23_LookupThenDefault ==
    days_pc = "done" =>
        IF MonthIn(month_map_double) # 0
        THEN expiry_date # Absent /\ expiry_date[1].month = MonthIn(month_map_double)
        ELSE IF MonthIn(month_map_single) # 0
        THEN expiry_date # Absent /\ expiry_date[1].month = MonthIn(month_map_single)
        ELSE expiry_date = Absent /\ days_to_expiry = <<30>>

\* an unknown code gives 30 on a clock where a known one would give 1
C23_Witness ==
    /\ days_pc = "done"
    /\ code = <<"Z", "Z">>
    /\ now.month = 12
    /\ now.day = 31
    /\ days_to_expiry = <<30>>

\* C24: for a recognised code of month m and a clock in month c, the expiry
\* instant is the 15th of month m at 17:00, of the next year when m < c and of
\* the current year when m >= c; for m = c after the 15th the expiry instant
\* is in the past and 1 is returned.
C24_ExpiryInstant ==
    (days_pc = "done" /\ expiry_date # Absent) =>
        LET e == expiry_date[1]
        IN  /\ e.day = 15
            /\ e.second = 17 * 3600
            /\ e.month < now.month => e.year = now.year + 1
            /\ e.month >= now.month => e.year = now.year
            /\ (e.month = now.month /\ now.day > 15) =>
                   /\ e.year = now.year
                   /\ Instant(e) < Instant(now)
                   /\ days_to_expiry = <<1>>

\* December expiry asked on 28 December: the expiry stays in the current year
C24_Witness ==
    /\ days_pc = "done"
    /\ expiry_date # Absent
    /\ expiry_date[1].month = 12
    /\ now = [year |-> 2025, month |-> 12, day |-> 28, second |-> 0]
    /\ expiry_date[1].year = 2025
    /\ days_to_expiry = <<1>>

-----------------------------------------------------------------------------
(* calculate_theoretical_price followed by calculate_row_greeks *)

(***************************************************************************)
(* Volatilities are in percent and prices in millionths; a price rounded   *)
(* to 4 decimal places is a multiple of 100 millionths.                    *)
(* bs_price is py_vollib's Black-Scholes price: its values for the         *)
(* contracts of the model are tabulated from the closed formula.           *)
(* bs_iv is taken to be the exact inverse of it: given a price it returns  *)
(* a volatility whose price, to 4 decimal places, is the price given.      *)
(***************************************************************************)

\* spot 100, 30 days to expiry, rate 26 %
RoundTripSpot == 100

RoundTripDays == 30

RoundTripStrikes == {90, 100, 110, 150}

Sigmas == {10, 20, 30, 40, 50}

RoundTripContracts ==
    [spot : {RoundTripSpot}, strike : RoundTripStrikes, days : {RoundTripDays},
     option_type : {"C", "V"}, sigma : Sigmas]

\* <<strike, side, sigma, price>>
BsPriceTable ==
    { <<90, "C", 10, 11902886>>, <<90, "C", 20, 11928420>>, <<90, "C", 30, 12153973>>,
      <<90, "C", 40, 12633249>>, <<90, "C", 50, 13291805>>, <<90, "V", 10, 3>>,
      <<90, "V", 20, 25537>>, <<90, "V", 30, 251090>>, <<90, "V", 40, 730366>>,
      <<90, "V", 50, 1388922>>, <<100, "C", 10, 2489308>>, <<100, "C", 20, 3475453>>,
      <<100, "C", 30, 4555190>>, <<100, "C", 40, 5659478>>, <<100, "C", 50, 6773117>>,
      <<100, "V", 10, 374993>>, <<100, "V", 20, 1361138>>, <<100, "V", 30, 2440875>>,
      <<100, "V", 40, 3545163>>, <<100, "V", 50, 4658802>>, <<110, "C", 10, 4653>>,
      <<110, "C", 20, 276879>>, <<110, "C", 30, 963930>>, <<110, "C", 40, 1863262>>,
      <<110, "C", 50, 2866375>>, <<110, "V", 10, 7678907>>, <<110, "V", 20, 7951133>>,
      <<110, "V", 30, 8638184>>, <<110, "V", 40, 9537516>>, <<110, "V", 50, 10540629>>,
      <<150, "C", 10, 0>>, <<150, "C", 20, 0>>, <<150, "C", 30, 9>>,
      <<150, "C", 40, 1462>>, <<150, "C", 50, 19644>>, <<150, "V", 10, 46828528>>,
      <<150, "V", 20, 46828528>>, <<150, "V", 30, 46828537>>, <<150, "V", 40, 46829990>>,
      <<150, "V", 50, 46848172>> }

\* greeks.py:183  bs_price(flag, S, K, T, r, sigma)
BsPrice(c) ==
    (CHOOSE e \in BsPriceTable :
        e[1] = c.strike /\ e[2] = c.option_type /\ e[3] = c.sigma)[4]

\* greeks.py:184  round(price, 4)
Round4(micros) == ((micros + 50) \div 100) * 100

\* greeks.py:166-188  calculate_theoretical_price
TheoreticalPrice(c) ==
    IF c.days <= 0
    THEN (IF c.option_type = "C"
          THEN (IF c.spot > c.strike THEN (c.spot - c.strike) * 1000000 ELSE 0)
          ELSE (IF c.strike > c.spot THEN (c.strike - c.spot) * 1000000 ELSE 0))
    ELSE Round4(BsPrice(c))

\* the arguments of calculate_row_greeks for a contract and a market price
RowArguments(c, price) ==
    [spot |-> c.spot, strike |-> c.strike, days |-> c.days,
     market_price |-> price, option_type |-> <<c.option_type>>]

\* greeks.py:106-113  bs_iv: the volatilities whose price is the price given
BsIv(c, price) ==
    { s \in Sigmas : Round4(BsPrice([c EXCEPT !.sigma = s])) = price }

RoundTripArguments ==
    /\ rt_pc = "price"
    /\ \E c \in RoundTripContracts : contract = <<c>>
    /\ theoretical_price = Absent
    /\ rt_result = EmptyResult

\* greeks.py:143-188  the forward price
PriceAtSigma ==
    /\ rt_pc = "price"
    /\ theoretical_price' = <<TheoreticalPrice(contract[1])>>
    /\ rt_pc' = "solve"
    /\ UNCHANGED <<contract, rt_result>>
    /\ UNCHANGED <<cvdVars, divVars, flipVars, gexVars, painVars, pricingVars, tickerVars, daysVars, chainVars, cacheVars, moneyVars>>

\* greeks.py:52-72  calculate_row_greeks rejects its arguments
RowGreeksRejects ==
    /\ rt_pc = "solve"
    /\ RowValidation(RowArguments(contract[1], theoretical_price[1])) # Absent
    /\ rt_result' = [rt_result EXCEPT
                        !.error = RowValidation(RowArguments(contract[1], theoretical_price[1]))]
    /\ rt_pc' = "done"
    /\ UNCHANGED <<contract, theoretical_price>>
    /\ UNCHANGED <<cvdVars, divVars, flipVars, gexVars, painVars, pricingVars, tickerVars, daysVars, chainVars, cacheVars, moneyVars>>

\* greeks.py:102-129  calculate_row_greeks solves the implied volatility and
\* computes the Greeks at it
RowGreeksSolves ==
    /\ rt_pc = "solve"
    /\ RowValidation(RowArguments(contract[1], theoretical_price[1])) = Absent
    /\ \E iv_value \in BsIv(contract[1], theoretical_price[1]), v \in GreekValues :
          rt_result' = [iv |-> <<iv_value>>, delta |-> <<v>>, gamma |-> <<v>>,
                        theta |-> <<v>>, vega |-> <<v>>, error |-> Absent]
    /\ rt_pc' = "done"
    /\ UNCHANGED <<contract, theoretical_price>>
    /\ UNCHANGED <<cvdVars, divVars, flipVars, gexVars, painVars, pricingVars, tickerVars, daysVars, chainVars, cacheVars, moneyVars>>

InitRoundTrip == CvdIdle /\ DivIdle /\ FlipIdle /\ GexIdle /\ PainIdle /\ PricingIdle /\ TickerIdle /\ DaysIdle /\ RoundTripArguments /\ ChainIdle /\ CacheIdle /\ MoneyIdle

NextRoundTrip ==
    \/ PriceAtSigma
    \/ RowGreeksRejects
    \/ RowGreeksSolves

\* the implied volatility of a price computed at a known volatility
SpecRoundTrip == InitRoundTrip /\ [][NextRoundTrip]_vars

-----------------------------------------------------------------------------
(* Properties of the round trip *)

\* C25 as claimed: for every valid contract and volatility sigma, the implied
\* volatility that calculate_row_greeks solves from the price computed at
\* sigma is sigma, here within one percentage point.
C25_IvRoundTrip ==
    rt_pc = "done" =>
        /\ rt_result.iv # Absent
        /\ rt_result.iv[1] - contract[1].sigma \in -1..1

-----------------------------------------------------------------------------
(* MarketDataService.get_option_chain *)

(***************************************************************************)
(* The option chain of the underlying ABCD, whose options have the root    *)
(* ABC (the first three letters, line 326).  A raw option is its ticker    *)
(* and its last price; the fields the function copies from the raw option  *)
(* to the record without reading them (bid, ask, volume, open interest,    *)
(* sizes) are left out.                                                    *)
(***************************************************************************)

\* market_data.py:326  symbol_map.get(underlying_symbol.upper(), underlying_symbol[:3].upper())
OptionSymbol == <<"A", "B", "C">>

\* tickers of the underlying, of another underlying, and one no pattern matches
ChainTickers ==
    { <<"A", "B", "C", "C", "3", "0", "0", "0", "D">>,
      <<"a", "b", "c", "V", "9", "7", "5", "3", "9", ".", "F", "E">>,
      <<"A", "B", "V", "3", "0", "0", "0", "D">>,
      <<"A", "B", "C", "3", "0", "0", "0">> }

LastPrices == {0, 5}

RawOptions == [ticker : ChainTickers, last : LastPrices]

\* the underlying's price in the stocks data, 0 when it is not there
ChainSpots == {0, 100}

\* datetime.now() at the time of a contract
ChainClocks ==
    { [year |-> 2024, month |-> 2, day |-> 1, second |-> 0],
      [year |-> 2024, month |-> 4, day |-> 16, second |-> 0] }

\* market_data.py:44  self.risk_free_rate = 0.26, in percent
risk_free_rate == 26

\* greeks.py:15-22  the parameters of calculate_row_greeks
RowGreeksParameters == {"S", "K", "T", "r", "price", "option_type"}

\* market_data.py:366-373  the keywords of the call
ChainKeywords ==
    {"spot_price", "strike_price", "time_to_expiry", "risk_free_rate",
     "option_type", "market_price"}

\* a call by keywords is bound to the function when every keyword is a
\* parameter and every parameter is given; otherwise the call raises TypeError
\* before the function is entered
Binds(keywords, parameters) == keywords \subseteq parameters /\ parameters \subseteq keywords

\* greeks.py:52-140  what calculate_row_greeks returns once entered: the
\* implied volatility and the Greeks, or an error
KernelResults ==
    { [iv |-> <<iv_value>>, delta |-> <<v>>, gamma |-> <<v>>, theta |-> <<v>>,
       vega |-> <<v>>, error |-> Absent] : iv_value \in SolvedIvs, v \in GreekValues }
    \cup { [EmptyResult EXCEPT !.error = <<"Greeks calculation error">>] }

\* market_data.py:361, 376  greeks = {}: every greeks.get() is None
NoGreeks == EmptyResult

\* market_data.py:379-401  the record of a contract
OptionData(o, p, days, spot, greeks) ==
    [ticker |-> Upper(o.ticker), symbol |-> p.symbol, option_type |-> p.option_type,
     strike |-> p.strike, month_code |-> p.month_code, days_to_expiry |-> days,
     last |-> o.last, underlying_price |-> spot,
     delta |-> greeks.delta, gamma |-> greeks.gamma, theta |-> greeks.theta,
     vega |-> greeks.vega, iv |-> greeks.iv]

\* market_data.py:366-373  the arguments of the kernel: time in days over 365
KernelArguments(o, p, days, spot) ==
    [S |-> spot, K |-> p.strike, T |-> <<days, 365>>, r |-> risk_free_rate,
     price |-> o.last, option_type |-> p.option_type]

\* market_data.py:288-303  the data is fetched and the spot looked up; the
\* call raises ValueError when the underlying is not found or its price is 0
ChainCall(raw, spot) ==
    /\ chain_pc = "call"
    /\ options' = raw
    /\ underlying_price' = spot
    /\ chain_pc' = IF spot = 0 THEN "raised" ELSE "loop"
    /\ UNCHANGED <<chain_seen, kernel_calls, parsed_options>>
    /\ UNCHANGED <<cvdVars, divVars, flipVars, gexVars, painVars, pricingVars, tickerVars, daysVars, roundTripVars, cacheVars, moneyVars>>

\* market_data.py:331-342  a raw option whose ticker is not parsed or is of
\* another underlying is passed over
ChainSkip ==
    /\ chain_pc = "loop"
    /\ chain_seen < Len(options)
    /\ LET p == ParseOptionTicker(Upper(options[chain_seen + 1].ticker))
       IN  IF p = Absent THEN TRUE ELSE p[1].symbol # OptionSymbol
    /\ chain_seen' = chain_seen + 1
    /\ UNCHANGED <<chain_pc, underlying_price, options, kernel_calls, parsed_options>>
    /\ UNCHANGED <<cvdVars, divVars, flipVars, gexVars, painVars, pricingVars, tickerVars, daysVars, roundTripVars, cacheVars, moneyVars>>

\* market_data.py:331-403  one iteration of the loop on a contract of the
\* underlying: its days to expiry, the Greeks when the last price and the
\* spot are positive, the record
ChainIterate(keywords) ==
    /\ chain_pc = "loop"
    /\ chain_seen < Len(options)
    /\ LET o == options[chain_seen + 1]
           parsed_ticker == ParseOptionTicker(Upper(o.ticker))
       IN  /\ parsed_ticker # Absent
           /\ parsed_ticker[1].symbol = OptionSymbol
           /\ \E t \in ChainClocks :
                LET p == parsed_ticker[1]
                    days == GetDaysToExpiry(p.month_code, t)
                IN  IF o.last > 0 /\ underlying_price > 0
                    THEN IF Binds(keywords, RowGreeksParameters)
                         THEN \E greeks \in KernelResults :
                                /\ kernel_calls' = Append(kernel_calls,
                                      [arguments |-> KernelArguments(o, p, days, underlying_price),
                                       returned |-> greeks,
                                       record |-> Len(parsed_options) + 1])
                                /\ parsed_options' = Append(parsed_options,
                                      OptionData(o, p, days, underlying_price, greeks))
                         ELSE /\ kernel_calls' = kernel_calls
                              /\ parsed_options' = Append(parsed_options,
                                    OptionData(o, p, days, underlying_price, NoGreeks))
                    ELSE /\ kernel_calls' = kernel_calls
                         /\ parsed_options' = Append(parsed_options,
                               OptionData(o, p, days, underlying_price, NoGreeks))
    /\ chain_seen' = chain_seen + 1
    /\ UNCHANGED <<chain_pc, underlying_price, options>>
    /\ UNCHANGED <<cvdVars, divVars, flipVars, gexVars, painVars, pricingVars, tickerVars, daysVars, roundTripVars, cacheVars, moneyVars>>

\* market_data.py:405-413  the loop is over and the chain is returned
ChainReturn ==
    /\ chain_pc = "loop"
    /\ chain_seen = Len(options)
    /\ chain_pc' = "done"
    /\ UNCHANGED <<underlying_price, options, chain_seen, kernel_calls, parsed_options>>
    /\ UNCHANGED <<cvdVars, divVars, flipVars, gexVars, painVars, pricingVars, tickerVars, daysVars, roundTripVars, cacheVars, moneyVars>>

ChainArguments ==
    /\ chain_pc = "call"
    /\ underlying_price = 0
    /\ options = <<>>
    /\ chain_seen = 0
    /\ kernel_calls = <<>>
    /\ parsed_options = <<>>

InitChain == CvdIdle /\ DivIdle /\ FlipIdle /\ GexIdle /\ PainIdle /\ PricingIdle /\ TickerIdle /\ DaysIdle /\ RoundTripIdle /\ ChainArguments /\ CacheIdle /\ MoneyIdle

NextChain ==
    \/ \E n \in 0..MaxChain, spot \in ChainSpots : \E raw \in [1..n -> RawOptions] :
          ChainCall(raw, spot)
    \/ ChainSkip
    \/ ChainIterate(ChainKeywords)
    \/ ChainReturn

\* get_option_chain on up to MaxChain raw options
SpecChain == InitChain /\ [][NextChain]_vars

-----------------------------------------------------------------------------
(* Properties of get_option_chain *)

\* the calls that entered the kernel for the i-th record
CallsFor(i) == { k \in 1..Len(kernel_calls) : kernel_calls[k].record = i }

\* C26 as claimed: for every record of the returned chain whose last price is
\* > 0, the kernel was called once, with the spot, the parsed strike,
\* days_to_expiry / 365, the rate 0.26, the last price and the side, and the
\* record carries the iv, delta, gamma, theta and vega the kernel returned;
\* they are absent only when the kernel reported a failure.
C26_KernelCalledPerContract ==
    chain_pc = "done" =>
        \A i \in 1..Len(parsed_options) :
            parsed_options[i].last > 0 =>
                /\ Cardinality(CallsFor(i)) = 1
                /\ \A k \in CallsFor(i) :
                      /\ kernel_calls[k].arguments =
                            [S |-> underlying_price, K |-> parsed_options[i].strike,
                             T |-> <<parsed_options[i].days_to_expiry, 365>>,
                             r |-> 26, price |-> parsed_options[i].last,
                             option_type |-> parsed_options[i].option_type]
                      /\ parsed_options[i].iv = kernel_calls[k].returned.iv
                      /\ parsed_options[i].delta = kernel_calls[k].returned.delta
                      /\ parsed_options[i].gamma = kernel_calls[k].returned.gamma
                      /\ parsed_options[i].theta = kernel_calls[k].returned.theta
                      /\ parsed_options[i].vega = kernel_calls[k].returned.vega
                      /\ parsed_options[i].iv = Absent =>
                            kernel_calls[k].returned.error # Absent

-----------------------------------------------------------------------------
(* MarketDataService._fetch_stocks and _fetch_options *)

(***************************************************************************)
(* Coroutines of one event loop that call _fetch_stocks or _fetch_options  *)
(* on the same service.  A coroutine runs without interruption up to its   *)
(* await of the upstream response, and again from the response to its      *)
(* return.  The data of a response is the tick of its request.             *)
(***************************************************************************)

\* core/config.py:36  cache_ttl_seconds, in ticks
cache_ttl == 2

Fetches == 1..MaxFetches

\* cachetools: the key is in the cache until its time to live is over
InCache(key) == cache[key] # Absent /\ clock < cache[key][1].expires

\* market_data.py:52-63, 83-94  the call up to the await: the cached data
\* when the key is in the cache, an upstream request otherwise
FetchStart(f, key) ==
    /\ fetch_pc[f] = "idle"
    /\ fetch_key' = [fetch_key EXCEPT ![f] = key]
    /\ IF InCache(key)
       THEN /\ fetched' = [fetched EXCEPT ![f] = <<cache[key][1].data>>]
            /\ fetch_pc' = [fetch_pc EXCEPT ![f] = "done"]
            /\ UNCHANGED upstream
       ELSE /\ fetch_pc' = [fetch_pc EXCEPT ![f] = "awaiting"]
            /\ upstream' = Append(upstream, [key |-> key, at |-> clock, by |-> f])
            /\ UNCHANGED fetched
    /\ UNCHANGED <<clock, cache>>
    /\ UNCHANGED <<cvdVars, divVars, flipVars, gexVars, painVars, pricingVars, tickerVars, daysVars, roundTripVars, chainVars, moneyVars>>

\* the request of a coroutine that awaits
RequestOf(f) ==
    upstream[CHOOSE k \in 1..Len(upstream) :
                /\ upstream[k].by = f
                /\ \A j \in 1..Len(upstream) : upstream[j].by = f => j <= k]

\* market_data.py:64-70, 95-101  the response arrives: the data is stored
\* under the key for the time to live and returned
FetchResponse(f) ==
    /\ fetch_pc[f] = "awaiting"
    /\ cache' = [cache EXCEPT ![fetch_key[f]] =
                    <<[data |-> RequestOf(f).at, expires |-> clock + cache_ttl]>>]
    /\ fetched' = [fetched EXCEPT ![f] = <<RequestOf(f).at>>]
    /\ fetch_pc' = [fetch_pc EXCEPT ![f] = "done"]
    /\ UNCHANGED <<clock, fetch_key, upstream>>
    /\ UNCHANGED <<cvdVars, divVars, flipVars, gexVars, painVars, pricingVars, tickerVars, daysVars, roundTripVars, chainVars, moneyVars>>

\* market_data.py:72-75, 103-105  the request fails: the call raises
FetchFails(f) ==
    /\ fetch_pc[f] = "awaiting"
    /\ fetch_pc' = [fetch_pc EXCEPT ![f] = "raised"]
    /\ UNCHANGED <<clock, cache, fetch_key, fetched, upstream>>
    /\ UNCHANGED <<cvdVars, divVars, flipVars, gexVars, painVars, pricingVars, tickerVars, daysVars, roundTripVars, chainVars, moneyVars>>

\* time passes
Tick ==
    /\ clock < MaxClock
    /\ clock' = clock + 1
    /\ UNCHANGED <<cache, fetch_pc, fetch_key, fetched, upstream>>
    /\ UNCHANGED <<cvdVars, divVars, flipVars, gexVars, painVars, pricingVars, tickerVars, daysVars, roundTripVars, chainVars, moneyVars>>

\* market_data.py:33-38  an empty cache and coroutines that have not started
CacheArguments ==
    /\ clock = 0
    /\ cache = [k \in CacheKeys |-> Absent]
    /\ fetch_pc = [f \in Fetches |-> "idle"]
    /\ fetch_key = [f \in Fetches |-> "stocks_data"]
    /\ fetched = [f \in Fetches |-> Absent]
    /\ upstream = <<>>

InitCache == CvdIdle /\ DivIdle /\ FlipIdle /\ GexIdle /\ PainIdle /\ PricingIdle /\ TickerIdle /\ DaysIdle /\ RoundTripIdle /\ ChainIdle /\ CacheArguments /\ MoneyIdle

NextCache ==
    \/ \E f \in Fetches, key \in CacheKeys : FetchStart(f, key)
    \/ \E f \in Fetches : FetchResponse(f)
    \/ \E f \in Fetches : FetchFails(f)
    \/ Tick

\* concurrent fetches through the cache
SpecCache == InitCache /\ [][NextCache]_vars

-----------------------------------------------------------------------------
(* Properties of the cache *)

\* C27 as claimed: in every interleaving at most one upstream request per
\* endpoint is issued within one time to live; a fetch that finds the key in
\* the cache returns the cached data without an upstream request; a failed
\* fetch stores nothing in the cache.
C27_OneRequestPerTtl ==
    /\ \A j, k \in 1..Len(upstream) :
          (j < k /\ upstream[j].key = upstream[k].key) =>
              upstream[k].at - upstream[j].at >= cache_ttl
    /\ \A f \in Fetches :
          (fetch_pc[f] = "done" /\ ~\E k \in 1..Len(upstream) : upstream[k].by = f) =>
              \E k \in 1..Len(upstream) :
                  upstream[k].key = fetch_key[f] /\ fetched[f] = <<upstream[k].at>>
    /\ \A key \in CacheKeys :
          cache[key] # Absent =>
              \E f \in Fetches :
                  /\ fetch_pc[f] = "done"
                  /\ fetch_key[f] = key
                  /\ \E k \in 1..Len(upstream) :
                        upstream[k].by = f /\ upstream[k].at = cache[key][1].data

-----------------------------------------------------------------------------
(* calculate_gex_profile *)

(***************************************************************************)
(* A gamma is an integer counting units of 0.005, an exposure an integer   *)
(* counting quanta of 0.00005 (millions), as in _find_flip_point; spot     *)
(* prices are multiples of 100, which keeps every exposure a whole number  *)
(* of quanta.  Sums are exact: the rounding of binary64 addition is not    *)
(* modelled, so an equality between two sums taken in different orders is  *)
(* an equality of real numbers.                                            *)
(***************************************************************************)

\* analytics.py:83
GEX_SCALE == 1000000

\* analytics.py:86
CONTRACT_SIZE == 100

\* 0.00005 and 0.005 as fractions, and the quanta of exposure per unit of gamma
Quantum == <<5, 100000>>

GammaUnit == <<5, 1000>>

GammaUnitInQuanta == (GammaUnit[1] * Quantum[2]) \div (GammaUnit[2] * Quantum[1])

\* None as the value of a key of a contract: a pair, which no <<v>> equals
NoneValue == <<0, 0>>

\* analytics.py:210-213  opt.get(key, 0) or 0
OrZero(field) == IF field = Absent \/ field = NoneValue THEN 0 ELSE field[1]

\* the values v of S as the fields <<v>> of a contract
Present(S) == {<<v>> : v \in S}

\* the well-formed contracts of options_data: strike (0 stands for every
\* strike <= 0), side, gamma and open interest, without vanna and charm
GexStrikeValues == {0, 95, 105, 110}

OptionTypes == {"call", "put"}

Gammas == {0, 1, 2}

OpenInterests == {0, 2}

Options ==
    [strike : Present(GexStrikeValues), option_type : Present(OptionTypes),
     gamma : Present(Gammas), open_interest : Present(OpenInterests),
     vanna : {Absent}, charm : {Absent}]

\* contracts that carry every key, and the same with one key missing, None
\* or, for the strike, not positive
CompleteOptions ==
    [strike : Present({95, 105}), option_type : Present(OptionTypes),
     gamma : Present({1}), open_interest : Present({2}),
     vanna : Present({1}), charm : Present({1})]

DefectiveOptions ==
    UNION { {[c EXCEPT !.strike = v] : v \in {Absent, NoneValue, <<0>>}}
            \cup {[c EXCEPT !.option_type = v] : v \in {Absent, NoneValue}}
            \cup {[c EXCEPT !.gamma = v] : v \in {Absent, NoneValue}}
            \cup {[c EXCEPT !.open_interest = v] : v \in {Absent, NoneValue}}
            \cup {[c EXCEPT !.vanna = v] : v \in {Absent, NoneValue}}
            \cup {[c EXCEPT !.charm = v] : v \in {Absent, NoneValue}}
          : c \in {d \in CompleteOptions : d.strike = <<95>>} }

BatchOptions == CompleteOptions \cup DefectiveOptions

\* contracts that differ in gamma and vanna, so that two of the same side at
\* the same strike (two expiries) can be told apart
DuplicateOptions ==
    [strike : Present({95, 105}), option_type : Present(OptionTypes),
     gamma : Present({1, 2}), open_interest : Present({2}),
     vanna : Present({1, 2}), charm : Present({1})]

GexSpots == {100, 200}

\* analytics.py:119-130  gamma * OI * 100 * spot^2 * 0.01 * direction / 1e6
CalculateSingleGex(gamma, open_interest, spot, is_call) ==
    IF gamma = 0 \/ open_interest = 0 THEN 0
    ELSE LET direction == IF is_call THEN 1 ELSE -1
             gex == (gamma * open_interest * CONTRACT_SIZE * spot * spot) \div 100
         IN  direction * ((gex * GammaUnitInQuanta) \div GEX_SCALE)

\* analytics.py:147-153  vanna * OI * 100 * spot * 0.01 * direction / 1e6, in
\* units of a millionth of the unit of vanna
CalculateSingleVex(vanna, open_interest, spot, is_call) ==
    IF vanna = 0 \/ open_interest = 0 THEN 0
    ELSE LET direction == IF is_call THEN 1 ELSE -1
         IN  direction * ((vanna * open_interest * CONTRACT_SIZE * spot) \div 100)

\* analytics.py:169-175  charm * OI * 100 * spot / 365 * direction / 1e3, in
\* units of 1/365000 of the unit of charm
CalculateSingleCex(charm, open_interest, spot, is_call) ==
    IF charm = 0 \/ open_interest = 0 THEN 0
    ELSE LET direction == IF is_call THEN 1 ELSE -1
         IN  direction * (charm * open_interest * CONTRACT_SIZE * spot)

\* analytics.py:196-197, 214  the reads that raise: None <= 0 is a TypeError,
\* and None.lower() an AttributeError once the strike has passed
Raises(o) ==
    \/ o.strike = NoneValue
    \/ /\ OrZero(o.strike) > 0
       /\ o.option_type = NoneValue

\* analytics.py:196-198  a strike that is missing (read as 0) or <= 0 is skipped
Skipped(o) == o.strike # NoneValue /\ OrZero(o.strike) <= 0

\* analytics.py:201-208  the accumulator of a strike seen for the first time
EmptyStrikeData ==
    [call_gamma |-> 0, put_gamma |-> 0, call_oi |-> 0, put_oi |-> 0,
     call_gex |-> 0, put_gex |-> 0, vex |-> 0, cex |-> 0]

\* variant of Accumulate: the side fields are added up like vex and cex
AccumulateSummingSides(data, o, spot) ==
    LET gamma == OrZero(o.gamma)
        oi == OrZero(o.open_interest)
        is_call == o.option_type = <<"call">>
        gex == CalculateSingleGex(gamma, oi, spot, is_call)
        vex == CalculateSingleVex(OrZero(o.vanna), oi, spot, is_call)
        cex == CalculateSingleCex(OrZero(o.charm), oi, spot, is_call)
    IN  IF is_call
        THEN [data EXCEPT !.call_gamma = @ + gamma, !.call_oi = @ + oi, !.call_gex = @ + gex,
                          !.vex = @ + vex, !.cex = @ + cex]
        ELSE [data EXCEPT !.put_gamma = @ + gamma, !.put_oi = @ + oi, !.put_gex = @ + gex,
                          !.vex = @ + vex, !.cex = @ + cex]

\* analytics.py:210-235  the accumulator of the contract's strike after the
\* contract; a missing option type reads as '', which is not 'call'
Accumulate(data, o, spot) ==
    LET gamma == OrZero(o.gamma)
        oi == OrZero(o.open_interest)
        is_call == o.option_type = <<"call">>
        gex == CalculateSingleGex(gamma, oi, spot, is_call)
        vex == CalculateSingleVex(OrZero(o.vanna), oi, spot, is_call)
        cex == CalculateSingleCex(OrZero(o.charm), oi, spot, is_call)
    IN  IF is_call
        THEN [data EXCEPT !.call_gamma = gamma, !.call_oi = oi, !.call_gex = gex,
                          !.vex = @ + vex, !.cex = @ + cex]
        ELSE [data EXCEPT !.put_gamma = gamma, !.put_oi = oi, !.put_gex = gex,
                          !.vex = @ + vex, !.cex = @ + cex]

\* dict[key] = value on a function
MapPut(map, key, value) ==
    [k \in (DOMAIN map) \cup {key} |-> IF k = key THEN value ELSE map[k]]

\* analytics.py:239  sorted(strikes_map.keys())
SortedKeys(map) ==
    LET RECURSIVE Sort(_)
        Sort(S) == IF S = {} THEN <<>>
                   ELSE LET m == CHOOSE x \in S : \A y \in S : x <= y
                        IN  <<m>> \o Sort(S \ {m})
    IN  Sort(DOMAIN map)

\* variant of StrikeTotalGex: the put side is subtracted
StrikeTotalGexMinusPut(call_gex, put_gex) == call_gex - put_gex

\* analytics.py:249
StrikeTotalGex(call_gex, put_gex) == call_gex + put_gex

\* The two tests of "within 5% of spot" are made on doubles. Prices are counted
\* in cents: the price p stands for the double nearest to p / 100. Off the ends
\* of the range the exact values differ by far more than a rounding error, so
\* the tests are the exact ones there; on the ends these are the prices of
\* MoneyStrikes and MoneySpots at which IEEE 754 arithmetic rounds across the
\* end, as <<strike, spot>>.

\* analytics.py:90-91  strike / spot_price is a double below the double 0.95,
\* the exact quotient being 0.95: 2.09 / 2.2 = 0.9499999999999998
RatioRoundedBelow == {<<209, 220>>, <<1577, 1660>>}

\* analytics.py:90, 92  strike / spot_price is a double above the double 1.05,
\* the exact quotient being 1.05: 10.71 / 10.2 = 1.0500000000000003
RatioRoundedAbove == {<<1071, 1020>>}

\* analytics.py:274, 278  spot_price * 0.95 is a double above the strike, the
\* exact product being the strike: 16.6 * 0.95 = 15.770000000000001
LocalRangeLowRoundedAbove == {<<1577, 1660>>}

\* analytics.py:275, 278  spot_price * 1.05 is a double below the strike, the
\* exact product being the strike: 3.8 * 1.05 = 3.9899999999999998
LocalRangeHighRoundedBelow == {<<399, 380>>, <<1071, 1020>>}

\* analytics.py:88-96  _classify_moneyness, on prices in cents: ratio = strike /
\* spot_price (spot positive); below 0.95 ITM, above 1.05 OTM, ATM otherwise
ClassifyMoneyness(strike, spot) ==
    IF 100 * strike < 95 * spot \/ <<strike, spot>> \in RatioRoundedBelow THEN "ITM"
    ELSE IF 100 * strike > 105 * spot \/ <<strike, spot>> \in RatioRoundedAbove THEN "OTM"
    ELSE "ATM"

\* analytics.py:241-258  the GexStrike list, ascending by strike
BuildGexStrikes(map, spot) ==
    LET keys == SortedKeys(map)
    IN  [i \in 1..Len(keys) |->
            [ strike |-> keys[i],
              call_gex |-> map[keys[i]].call_gex,
              put_gex |-> map[keys[i]].put_gex,
              total_gex |-> StrikeTotalGex(map[keys[i]].call_gex, map[keys[i]].put_gex),
              call_oi |-> map[keys[i]].call_oi,
              put_oi |-> map[keys[i]].put_oi,
              call_gamma |-> map[keys[i]].call_gamma,
              put_gamma |-> map[keys[i]].put_gamma,
              vex |-> map[keys[i]].vex,
              cex |-> map[keys[i]].cex,
              moneyness |-> ClassifyMoneyness(100 * keys[i], 100 * spot) ]]

\* sum(f[i] for i in 1..n)
SumOf(f, n) ==
    LET RECURSIVE Sum(_)
        Sum(k) == IF k = 0 THEN 0 ELSE Sum(k - 1) + f[k]
    IN  Sum(n)

\* variant of InLocalRange: the upper end of the range is left out
InLocalRangeOpenAbove(strike, spot) ==
    95 * spot <= 100 * strike /\ 100 * strike < 105 * spot

\* analytics.py:274-275, 278  spot * 0.95 <= strike <= spot * 1.05, on prices in
\* cents
InLocalRange(strike, spot) ==
    /\ 95 * spot <= 100 * strike /\ <<strike, spot>> \notin LocalRangeLowRoundedAbove
    /\ 100 * strike <= 105 * spot /\ <<strike, spot>> \notin LocalRangeHighRoundedBelow

\* analytics.py:276-279  the sum of total_gex over the strikes in the local range
LocalGex(strikes, spot) ==
    SumOf([i \in 1..Len(strikes) |->
              IF InLocalRange(100 * strikes[i].strike, 100 * spot) THEN strikes[i].total_gex ELSE 0],
          Len(strikes))

\* analytics.py:282, 284  "flip_point and ..." : None and 0.0 are false
Truthy(flip) == flip # Absent /\ flip[1][1] # 0

\* variant of GexRegime: a spot on the flip point counts as above it
GexRegimeAtOrAbove(flip, spot) ==
    IF Truthy(flip) /\ spot * flip[1][2] < flip[1][1] THEN "NEGATIVE"
    ELSE IF Truthy(flip) /\ spot * flip[1][2] >= flip[1][1] THEN "POSITIVE"
    ELSE "NEUTRAL"

\* analytics.py:282-287
GexRegime(flip, spot) ==
    IF Truthy(flip) /\ spot * flip[1][2] < flip[1][1] THEN "NEGATIVE"
    ELSE IF Truthy(flip) /\ spot * flip[1][2] > flip[1][1] THEN "POSITIVE"
    ELSE "NEUTRAL"

\* the ladder _find_max_pain reads from the GexStrike list
OiOf(strikes) ==
    [i \in 1..Len(strikes) |->
        [strike |-> strikes[i].strike, call_oi |-> strikes[i].call_oi,
         put_oi |-> strikes[i].put_oi]]

\* analytics.py:261-301  the GexProfile of the strikes
BuildProfile(map, spot) ==
    LET strikes == BuildGexStrikes(map, spot)
        total_call_gex == SumOf([i \in 1..Len(strikes) |-> strikes[i].call_gex], Len(strikes))
        total_put_gex == SumOf([i \in 1..Len(strikes) |-> strikes[i].put_gex], Len(strikes))
    IN  [ spot_price |-> spot,
          flip_point |-> FindFlipPoint(strikes, spot),
          total_call_gex |-> total_call_gex,
          total_put_gex |-> total_put_gex,
          net_gex |-> total_call_gex + total_put_gex,
          strikes |-> strikes,
          total_vex |-> SumOf([i \in 1..Len(strikes) |-> strikes[i].vex], Len(strikes)),
          total_cex |-> SumOf([i \in 1..Len(strikes) |-> strikes[i].cex], Len(strikes)),
          max_pain |-> FindMaxPain(OiOf(strikes)),
          gex_regime |-> GexRegime(FindFlipPoint(strikes, spot), spot),
          local_gex |-> LocalGex(strikes, spot) ]

\* analytics.py:176-193  the call, on a list of n contracts
GexCall(n, spot) ==
    /\ gex_pc = "idle"
    /\ gex_pc' = "loop"
    /\ n_options' = n
    /\ n_seen' = 0
    /\ opt' = Absent
    /\ spot_price' = spot
    /\ strikes_map' = <<>>
    /\ profile' = Absent
    /\ UNCHANGED <<cvdVars, divVars, flipVars, painVars, pricingVars, tickerVars, daysVars, roundTripVars, chainVars, cacheVars, moneyVars>>

\* analytics.py:195-235  one iteration of the loop, on contract o
GexIterate(o) ==
    /\ gex_pc = "loop"
    /\ n_seen < n_options
    /\ n_seen' = n_seen + 1
    /\ opt' = <<o>>
    /\ IF Raises(o)
       THEN gex_pc' = "raised" /\ strikes_map' = strikes_map
       ELSE /\ gex_pc' = gex_pc
            /\ IF Skipped(o)
               THEN strikes_map' = strikes_map
               ELSE LET strike == o.strike[1]
                        data == IF strike \in DOMAIN strikes_map
                                THEN strikes_map[strike] ELSE EmptyStrikeData
                    IN  strikes_map' = MapPut(strikes_map, strike, Accumulate(data, o, spot_price))
    /\ UNCHANGED <<n_options, spot_price, profile>>
    /\ UNCHANGED <<cvdVars, divVars, flipVars, painVars, pricingVars, tickerVars, daysVars, roundTripVars, chainVars, cacheVars, moneyVars>>

\* analytics.py:237-301  after the loop: the profile is built and returned
GexReturn ==
    /\ gex_pc = "loop"
    /\ n_seen = n_options
    /\ gex_pc' = "done"
    /\ profile' = <<BuildProfile(strikes_map, spot_price)>>
    /\ UNCHANGED <<n_options, n_seen, opt, spot_price, strikes_map>>
    /\ UNCHANGED <<cvdVars, divVars, flipVars, painVars, pricingVars, tickerVars, daysVars, roundTripVars, chainVars, cacheVars, moneyVars>>

InitGex == CvdIdle /\ DivIdle /\ FlipIdle /\ GexIdle /\ PainIdle /\ PricingIdle /\ TickerIdle /\ DaysIdle /\ RoundTripIdle /\ ChainIdle /\ CacheIdle /\ MoneyIdle

NextGex(contracts) ==
    \/ \E n \in 0..MaxOptions, spot \in GexSpots : GexCall(n, spot)
    \/ \E o \in contracts : GexIterate(o)
    \/ GexReturn

\* calculate_gex_profile on every list of well-formed contracts of the bounds
SpecGex == InitGex /\ [][NextGex(Options)]_vars

\* calculate_gex_profile on lists that hold contracts with a missing, None or
\* non-positive key
SpecGexBatch == InitGex /\ [][NextGex(BatchOptions)]_vars

\* calculate_gex_profile on lists that hold several contracts of one side at
\* one strike
SpecGexDup == InitGex /\ [][NextGex(DuplicateOptions)]_vars

-----------------------------------------------------------------------------
(* Properties of calculate_gex_profile *)

\* the sum of the total_gex of the first n strikes of the returned profile
ProfileTotalGex(n) ==
    LET RECURSIVE Sum(_)
        Sum(k) == IF k = 0 THEN 0 ELSE Sum(k - 1) + profile[1].strikes[k].total_gex
    IN  Sum(n)

\* C8: in every returned profile the total_gex of each strike is its
\* call_gex + put_gex, and net_gex is the sum of total_gex over all the
\* strikes as well as total_call_gex + total_put_gex.
C8_NetGexIsSumOfStrikes ==
    gex_pc = "done" =>
        /\ \A i \in 1..Len(profile[1].strikes) :
              profile[1].strikes[i].total_gex =
                  profile[1].strikes[i].call_gex + profile[1].strikes[i].put_gex
        /\ profile[1].net_gex = ProfileTotalGex(Len(profile[1].strikes))
        /\ profile[1].net_gex = profile[1].total_call_gex + profile[1].total_put_gex

\* a profile of two strikes, one with a call and a put side, whose sides do
\* not cancel
C8_Witness ==
    /\ gex_pc = "done"
    /\ Len(profile[1].strikes) = 2
    /\ profile[1].strikes[1].call_gex > 0
    /\ profile[1].strikes[1].put_gex < 0
    /\ profile[1].strikes[2].put_gex < 0
    /\ profile[1].total_call_gex > 0
    /\ profile[1].net_gex < 0

\* spot against the flip point of the returned profile: -1 below, 0 on it, 1 above
SpotSide ==
    LET flip == profile[1].flip_point[1]
        spot == profile[1].spot_price
    IN  IF spot * flip[2] < flip[1] THEN -1
        ELSE IF spot * flip[2] > flip[1] THEN 1 ELSE 0

\* C13 as claimed: the regime is NEGATIVE when spot is below the flip point,
\* POSITIVE when spot is above it, and NEUTRAL if and only if no flip point
\* was resolved.
C13_NeutralOnlyWithoutFlip ==
    gex_pc = "done" =>
        /\ (profile[1].flip_point # Absent /\ SpotSide = -1) => profile[1].gex_regime = "NEGATIVE"
        /\ (profile[1].flip_point # Absent /\ SpotSide = 1) => profile[1].gex_regime = "POSITIVE"
        /\ (profile[1].gex_regime = "NEUTRAL") <=> (profile[1].flip_point = Absent)

\* C13 as amended: the regime is NEGATIVE exactly when a flip point was
\* resolved and spot is below it, POSITIVE exactly when one was resolved and
\* spot is above it, and NEUTRAL exactly when none was resolved or spot is
\* on the flip point.
C13_RegimeBySpotAndFlip ==
    gex_pc = "done" =>
        /\ (profile[1].gex_regime = "NEGATIVE") <=>
              (profile[1].flip_point # Absent /\ SpotSide = -1)
        /\ (profile[1].gex_regime = "POSITIVE") <=>
              (profile[1].flip_point # Absent /\ SpotSide = 1)
        /\ (profile[1].gex_regime = "NEUTRAL") <=>
              (profile[1].flip_point = Absent \/ SpotSide = 0)

\* a profile whose flip point is interpolated between two strikes and falls
\* on the spot price
C13_Witness ==
    /\ gex_pc = "done"
    /\ Len(profile[1].strikes) = 2
    /\ profile[1].flip_point # Absent
    /\ profile[1].flip_point[1][2] > 1
    /\ SpotSide = 0
    /\ profile[1].gex_regime = "NEUTRAL"

\* the sum of total_gex over the first n strikes of the returned profile that
\* lie within 5% of spot, both ends included
ProfileLocalGex(n) ==
    LET RECURSIVE Sum(_)
        Sum(k) ==
            IF k = 0 THEN 0
            ELSE Sum(k - 1) +
                 (IF /\ 95 * profile[1].spot_price <= 100 * profile[1].strikes[k].strike
                     /\ 100 * profile[1].strikes[k].strike <= 105 * profile[1].spot_price
                  THEN profile[1].strikes[k].total_gex ELSE 0)
    IN  Sum(n)

\* C14: local_gex is the sum of total_gex over exactly the strikes k with
\* 0.95 * spot <= k <= 1.05 * spot, and 0 when no strike lies in that range.
C14_LocalGexWithinFivePercent ==
    gex_pc = "done" =>
        profile[1].local_gex = ProfileLocalGex(Len(profile[1].strikes))

\* a profile with a strike on each end of the range and one beyond it, whose
\* local_gex is neither 0 nor the net_gex
C14_Witness ==
    /\ gex_pc = "done"
    /\ Len(profile[1].strikes) = 3
    /\ 100 * profile[1].strikes[1].strike = 95 * profile[1].spot_price
    /\ 100 * profile[1].strikes[2].strike = 105 * profile[1].spot_price
    /\ \A i \in 1..3 : profile[1].strikes[i].total_gex # 0
    /\ profile[1].local_gex =
          profile[1].strikes[1].total_gex + profile[1].strikes[2].total_gex
    /\ profile[1].local_gex # 0

\* the accumulator of a strike, as a strike not seen yet has it
DataAt(map, strike) == IF strike \in DOMAIN map THEN map[strike] ELSE EmptyStrikeData

\* C28: a contract sets the side fields (gex, open interest, gamma) of its
\* strike to its own values, whatever an earlier contract of the same side
\* left there, leaves the other side as it is and adds its vex and cex to the
\* strike's; so a strike's side fields are those of the last contract of
\* that side in input order, its vex and cex are sums over all its
\* contracts, and total_call_gex and total_put_gex of the profile are the
\* sums of those last values over the strikes.
C28_LastContractOfSideWins ==
    /\ [][(gex_pc = "loop" /\ gex_pc' = "loop" /\ n_seen' = n_seen + 1) =>
            LET o == opt'[1]
                strike == o.strike[1]
                before == DataAt(strikes_map, strike)
                after == strikes_map'[strike]
                is_call == o.option_type = <<"call">>
                own_gex == CalculateSingleGex(o.gamma[1], o.open_interest[1], spot_price, is_call)
                own_vex == CalculateSingleVex(o.vanna[1], o.open_interest[1], spot_price, is_call)
                own_cex == CalculateSingleCex(o.charm[1], o.open_interest[1], spot_price, is_call)
            IN  /\ is_call =>
                      /\ after.call_gex = own_gex
                      /\ after.call_oi = o.open_interest[1]
                      /\ after.call_gamma = o.gamma[1]
                      /\ after.put_gex = before.put_gex
                      /\ after.put_oi = before.put_oi
                      /\ after.put_gamma = before.put_gamma
                /\ ~is_call =>
                      /\ after.put_gex = own_gex
                      /\ after.put_oi = o.open_interest[1]
                      /\ after.put_gamma = o.gamma[1]
                      /\ after.call_gex = before.call_gex
                      /\ after.call_oi = before.call_oi
                      /\ after.call_gamma = before.call_gamma
                /\ after.vex = before.vex + own_vex
                /\ after.cex = before.cex + own_cex
                /\ \A k \in DOMAIN strikes_map : k # strike => strikes_map'[k] = strikes_map[k]]_vars
    /\ [](gex_pc = "done" =>
            LET keys == SortedKeys(strikes_map)
            IN  /\ profile[1].total_call_gex =
                      SumOf([i \in 1..Len(keys) |-> strikes_map[keys[i]].call_gex], Len(keys))
                /\ profile[1].total_put_gex =
                      SumOf([i \in 1..Len(keys) |-> strikes_map[keys[i]].put_gex], Len(keys)))

\* two calls at one strike: the strike's vex is the sum of both, its call_gex
\* and the profile's total_call_gex are those of the second alone
C28_Witness ==
    /\ gex_pc = "done"
    /\ n_options = 2
    /\ DOMAIN strikes_map = {95}
    /\ opt[1].option_type = <<"call">>
    /\ opt[1].vanna \in {<<1>>, <<2>>}
    /\ strikes_map[95].put_oi = 0
    /\ strikes_map[95].vex =
          CalculateSingleVex(1, 2, spot_price, TRUE) + CalculateSingleVex(2, 2, spot_price, TRUE)
    /\ strikes_map[95].call_gamma = 1
    /\ profile[1].total_call_gex = CalculateSingleGex(1, 2, spot_price, TRUE)
    /\ profile[1].total_call_gex # 0
    /\ profile[1].total_vex = strikes_map[95].vex

\* the totals of the profile built from an accumulator
Totals(map) ==
    LET p == BuildProfile(map, spot_price)
    IN  <<p.total_call_gex, p.total_put_gex, p.net_gex, p.total_vex, p.total_cex>>

\* a contract whose strike is missing, None or <= 0, whose option type is
\* missing or None, or whose gamma, vanna, charm or open interest is missing
\* or None
Malformed(o) ==
    \/ o.strike \in {Absent, NoneValue}
    \/ o.strike[1] <= 0
    \/ o.option_type \in {Absent, NoneValue}
    \/ o.gamma \in {Absent, NoneValue}
    \/ o.vanna \in {Absent, NoneValue}
    \/ o.charm \in {Absent, NoneValue}
    \/ o.open_interest \in {Absent, NoneValue}

\* C15 as claimed: a malformed contract added to a list never makes the call
\* raise and leaves total_call_gex, total_put_gex, net_gex, total_vex and
\* total_cex as they are without it.  Stated on the contract added last: the
\* iteration on it does not raise and keeps the totals.
C15_MalformedContractContained ==
    [][(gex_pc = "loop" /\ n_seen' = n_seen + 1 /\ Malformed(opt'[1])) =>
          (gex_pc' # "raised" /\ Totals(strikes_map') = Totals(strikes_map))]_vars

-----------------------------------------------------------------------------
(* The strike of a profile: its moneyness (analytics.py:243) and its part in *)
(* local_gex (analytics.py:276-279), on prices that carry cents.             *)

MoneySpots == {220, 380, 1020, 1660, 2000, 10000}

\* strikes at 90%, 95%, 100%, 105% and 110% of a spot
MoneyFactors == {90, 95, 100, 105, 110}

MoneyStrikes == { (s * f) \div 100 : s \in MoneySpots, f \in MoneyFactors }

MoneyArguments ==
    /\ money_pc = "call"
    /\ money_strike \in MoneyStrikes
    /\ money_spot \in MoneySpots
    /\ moneyness = Absent
    /\ in_local_gex = Absent

\* analytics.py:243, 274-279  the strike is classified, and summed into
\* local_gex when it lies in the local range
ProfileStrike ==
    /\ money_pc = "call"
    /\ money_pc' = "done"
    /\ moneyness' = <<ClassifyMoneyness(money_strike, money_spot)>>
    /\ in_local_gex' = <<InLocalRange(money_strike, money_spot)>>
    /\ UNCHANGED <<money_strike, money_spot>>
    /\ UNCHANGED <<cvdVars, divVars, flipVars, gexVars, painVars, pricingVars, tickerVars, daysVars, roundTripVars, chainVars, cacheVars>>

InitMoney == CvdIdle /\ DivIdle /\ FlipIdle /\ GexIdle /\ PainIdle /\ PricingIdle /\ TickerIdle /\ DaysIdle /\ RoundTripIdle /\ ChainIdle /\ CacheIdle /\ MoneyArguments

NextMoney == ProfileStrike

\* a strike of a profile at every strike and spot of the bounds
SpecMoney == InitMoney /\ [][NextMoney]_vars

\* C30: a strike has one moneyness, ITM, ATM or OTM, and it is summed into
\* local_gex if and only if its moneyness is ATM.
C30_LocalGexOverAtmStrikes ==
    money_pc = "done" =>
        /\ moneyness[1] \in {"ITM", "ATM", "OTM"}
        /\ in_local_gex[1] <=> (moneyness[1] = "ATM")

====
